---- MODULE Spec2Model ----
(***************************************************************************)
(* Model of the PDA-ID address identifier service and of the geographic   *)
(* hierarchy (Region / District / Zone) handlers of the location backend. *)
(*                                                                         *)
(* Text is modelled as a tuple of one-character strings, so that          *)
(* formatting (zfill, f-strings), splitting and int() parsing are          *)
(* computed character by character, as the code computes them.             *)
(***************************************************************************)
EXTENDS Integers, Sequences, FiniteSets, TLC

\* ------------------------------------------------------------------------
\* Bounds of the model
\* ------------------------------------------------------------------------
MaxSeqSample == 3
NearCapacity == 1
NumZoneCodes == 1
NumWorkers == 2
MaxMints == 3
MaxAddressDeletes == 1
NumGeoWorkers == 2
NumNames == 10
MaxTargetId == 2
MaxCreateRegion == 10
GeoCreateRegion == 2
ConcCreateRegion == 1
ConcCreateDistrict == 2
MaxCreateDistrict == 2
MaxCreateZone == 1
MaxUpdate == 1
MaxDelete == 1
LockCreateRegion == 1
LockCreateDistrict == 2
LockCreateZone == 1
LockUpdate == 1
LockDelete == 1
MaxLuhnLen == 3
MaxPrecision == 2
MaxHashLen == 1
MaxImports == 2
NumAdmins == 2
MaxDecisions == 2

\* ------------------------------------------------------------------------
\* Characters and decimal text
\* ------------------------------------------------------------------------
DigitChars == <<"0", "1", "2", "3", "4", "5", "6", "7", "8", "9">>

DigitSet == {DigitChars[i] : i \in 1..10}

IsDigit(c) == c \in DigitSet

\* str(d) of one decimal digit d
DigitChar(d) == DigitChars[d + 1]

\* int(c) of one digit character c
CharVal(c) == CHOOSE d \in 0..9 : DigitChars[d + 1] = c

RECURSIVE Str(_)
\* str(n) for a natural number n
Str(n) == IF n < 10 THEN <<DigitChar(n)>>
          ELSE Append(Str(n \div 10), DigitChar(n % 10))

RECURSIVE ZFill(_, _)
\* s.zfill(width): pad on the left with "0" up to width, never truncate
ZFill(s, width) == IF Len(s) >= width THEN s ELSE ZFill(<<"0">> \o s, width)

RECURSIVE IntOf(_)
\* int(s) of a non-empty string of digits
IntOf(s) == IF Len(s) = 1 THEN CharVal(s[1])
            ELSE 10 * IntOf(SubSeq(s, 1, Len(s) - 1)) + CharVal(s[Len(s)])

RECURSIVE SplitDash(_)
\* s.split("-")
SplitDash(s) ==
    IF \A i \in 1..Len(s) : s[i] # "-" THEN <<s>>
    ELSE LET k == CHOOSE i \in 1..Len(s) :
                      s[i] = "-" /\ \A j \in 1..(i - 1) : s[j] # "-"
         IN  <<SubSeq(s, 1, k - 1)>> \o SplitDash(SubSeq(s, k + 1, Len(s)))

AllDigits(s, from, to) == \A i \in from..to : IsDigit(s[i])

\* ------------------------------------------------------------------------
\* utils/luhn.py
\* ------------------------------------------------------------------------
RECURSIVE SumSeq(_)
SumSeq(s) == IF Len(s) = 0 THEN 0 ELSE s[1] + SumSeq(Tail(s))

\* digits[i] *= 2; if digits[i] > 9: digits[i] -= 9
LuhnDoubleLastDigit(d) == (2 * d) % 10

LuhnDouble(d) == IF 2 * d > 9 THEN 2 * d - 9 ELSE 2 * d

\* [int(d) for d in number_str if d.isdigit()]
RECURSIVE DigitsOf(_)
DigitsOf(s) == IF Len(s) = 0 THEN <<>>
               ELSE IF IsDigit(s[1]) THEN <<CharVal(s[1])>> \o DigitsOf(Tail(s))
               ELSE DigitsOf(Tail(s))

\* range(len(digits) - 1, -1, -2) are the 0-based indices len-1, len-3, ...;
\* in 1-based terms the positions i with (Len - i) even.
calculate_luhn_check_digit(number_str) ==
    LET digits == DigitsOf(number_str)
        n == Len(digits)
        doubled == [i \in 1..n |-> IF (n - i) % 2 = 0
                                   THEN LuhnDouble(digits[i]) ELSE digits[i]]
        total == SumSeq(doubled)
    IN  (10 - (total % 10)) % 10

ValidateDoubledFromLast(n, i) == (n - i) % 2 = 0

\* range(len(digits) - 2, -1, -2): positions i with (Len - i) odd.
ValidateDoubled(n, i) == (n - i) % 2 = 1

validate_luhn(number_str) ==
    LET digits == DigitsOf(number_str)
        n == Len(digits)
        doubled == [i \in 1..n |-> IF ValidateDoubled(n, i)
                                   THEN LuhnDouble(digits[i]) ELSE digits[i]]
    IN  IF n < 2 THEN FALSE ELSE SumSeq(doubled) % 10 = 0

extract_numeric_from_pda_id(pda_id) ==
    LET parts == SplitDash(pda_id)
    IN  parts[2] \o parts[3] \o parts[4]

\* int(parts[4]) raises ValueError on a non-numeric text, which the handler
\* turns into False.
validate_pda_id_check_digit(pda_id) ==
    LET parts == SplitDash(pda_id)
    IN  IF Len(parts) # 5 \/ parts[1] # <<"S", "L">> THEN FALSE
        ELSE IF Len(parts[5]) = 0 \/ ~AllDigits(parts[5], 1, Len(parts[5]))
             THEN FALSE
        ELSE IntOf(parts[5]) =
                 calculate_luhn_check_digit(extract_numeric_from_pda_id(pda_id))

\* ------------------------------------------------------------------------
\* services/pda_id.py : the pure part
\* ------------------------------------------------------------------------
MAX_SEQUENCE == 999999

COUNTRY_PREFIX == <<"S", "L">>

\* re ^SL-\d{4}-\d{3}-\d{6}-\d$ over the characters the model draws
\* (ASCII digits, letters and "-")
PDA_ID_PATTERN(s) ==
    /\ Len(s) = 20
    /\ s[1] = "S" /\ s[2] = "L" /\ s[3] = "-"
    /\ AllDigits(s, 4, 7) /\ s[8] = "-"
    /\ AllDigits(s, 9, 11) /\ s[12] = "-"
    /\ AllDigits(s, 13, 18) /\ s[19] = "-"
    /\ IsDigit(s[20])

\* re ^\d{4}-\d{3}$
ZoneCodePattern(s) ==
    /\ Len(s) = 8
    /\ AllDigits(s, 1, 4) /\ s[5] = "-" /\ AllDigits(s, 6, 8)

validate_format(pda_id) ==
    IF ~PDA_ID_PATTERN(pda_id) THEN FALSE
    ELSE validate_pda_id_check_digit(pda_id)

ValueError == [error |-> "ValueError"]

IsError(r) == DOMAIN r = {"error"}

parse(pda_id) ==
    IF ~validate_format(pda_id) THEN ValueError
    ELSE LET parts == SplitDash(pda_id)
         IN  [country |-> parts[1],
              primary_code |-> parts[2],
              segment |-> parts[3],
              zone_code |-> parts[2] \o <<"-">> \o parts[3],
              sequence |-> IntOf(parts[4]),
              check_digit |-> IntOf(parts[5]),
              full_id |-> pda_id]

SequenceTextUnpadded(sequence) == Str(sequence)

\* str(sequence).zfill(6)
SequenceText(sequence) == ZFill(Str(sequence), 6)

generate(zone_code, sequence) ==
    IF ~ZoneCodePattern(zone_code) THEN ValueError
    ELSE IF ~(1 <= sequence /\ sequence <= MAX_SEQUENCE) THEN ValueError
    ELSE LET parts == SplitDash(zone_code)
             primary_code == parts[1]
             segment == parts[2]
             sequence_str == SequenceText(sequence)
             numeric_part == primary_code \o segment \o sequence_str
             check_digit == calculate_luhn_check_digit(numeric_part)
         IN  [text |-> COUNTRY_PREFIX \o <<"-">> \o primary_code \o <<"-">>
                        \o segment \o <<"-">> \o sequence_str \o <<"-">>
                        \o <<DigitChar(check_digit)>>]

\* ------------------------------------------------------------------------
\* State
\* ------------------------------------------------------------------------
VARIABLES
    codec,             \* one run of generate / parse / validate_format
    address_sequence,  \* PostalZone.address_sequence, committed, per zone_code
    rowLock,           \* row lock of the postal_zones row, per zone_code
    addresses,         \* committed rows of the addresses table
    reg,               \* register_address requests in flight, per worker
    minted,            \* what the generate_next calls returned so far
    mintCount,         \* number of generate_next calls that returned
    delCount,          \* address rows deleted so far
    regions,           \* committed rows of the regions table
    districts,         \* committed rows of the districts table
    zones,             \* committed rows of the zones table
    nextId,            \* next autoincrement primary key, per table
    req,               \* hierarchy requests in flight, per worker
    quota              \* writes each endpoint may still commit

vars == <<codec, address_sequence, rowLock, addresses, reg, minted, mintCount,
          delCount, regions, districts, zones, nextId, req, quota>>

geoVars == <<regions, districts, zones, nextId, req, quota>>

codecVars == <<codec>>
pdaVars == <<address_sequence, rowLock, addresses, reg, minted, mintCount,
             delCount>>

\* ------------------------------------------------------------------------
\* Sample inputs
\* ------------------------------------------------------------------------
PrimarySamples == {<<"2", "3", "1", "0">>, <<"0", "0", "0", "0">>,
                   <<"9", "9", "9", "9">>, <<"1", "1", "0", "5">>}

SegmentSamples == {<<"0", "4", "7">>, <<"0", "0", "0">>, <<"9", "9", "9">>}

MalformedZoneCodes == {<<"2", "3", "1", "-", "0", "4", "7">>,
                       <<"2", "3", "1", "0", "0", "4", "7">>}

ZoneCodeSamples ==
    {p \o <<"-">> \o s : p \in PrimarySamples, s \in SegmentSamples}
        \cup MalformedZoneCodes

SequenceSamples ==
    (0..MaxSeqSample) \cup {9, 10, 99, 100, 142, 999, 1000, 9999, 10000,
                            99999, 100000}
        \cup ((MAX_SEQUENCE - MaxSeqSample)..(MAX_SEQUENCE + 1))

ZoneCodeList == <<<<"2", "3", "1", "0", "-", "0", "4", "7">>,
                  <<"1", "1", "0", "0", "-", "0", "0", "1">>,
                  <<"2", "3", "1", "0", "-", "0", "4", "8">>,
                  <<"9", "9", "9", "9", "-", "9", "9", "9">>>>

ZoneCodes == {ZoneCodeList[i] : i \in 1..NumZoneCodes}

\* No text (an absent zone, a PDA-ID not yet produced)
NoText == <<>>

Unset == [error |-> "unset"]

Workers == 1..NumWorkers

NoWorker == 0

RegIdle == [pc |-> "idle", zone_code |-> NoText, sequence |-> 0,
            pda_id |-> NoText, waited |-> FALSE, refusal |-> "none"]

\* ------------------------------------------------------------------------
\* Hierarchy: rows, requests and the values the handlers compute with
\* ------------------------------------------------------------------------
GeoOps == {"create_region", "update_region", "delete_region",
           "create_district", "update_district", "delete_district",
           "create_zone", "update_zone", "delete_zone"}

\* scalar_one_or_none() found no row
NoRow == [id |-> 0]

\* An optional request field that was not sent (None)
NoName == 0

\* SQL NULL / Python None as the result of a scalar query
SqlNull == {}

ReqIdle == [op |-> "none", pc |-> "idle", id |-> 0, name |-> NoName,
            short_code |-> NoText, snap |-> NoRow, parent |-> NoRow,
            max_code |-> SqlNull, resp |-> "none", created |-> 0,
            raced |-> FALSE]

GeoWorkers == 1..NumGeoWorkers

GeoUnused ==
    /\ regions = {}
    /\ districts = {}
    /\ zones = {}
    /\ nextId = [regions |-> 1, districts |-> 1, zones |-> 1]
    /\ req = [w \in GeoWorkers |-> ReqIdle]
    /\ quota = [op \in GeoOps |-> 0]

UpperLetters == <<"A", "B", "C", "D", "E", "F", "G", "H", "I", "J", "K", "L">>

LowerLetters == <<"a", "b", "c", "d", "e", "f", "g", "h", "i", "j", "k", "l">>

\* c.upper() of one character
UpperChar(c) == IF \E i \in 1..Len(LowerLetters) : LowerLetters[i] = c
                THEN UpperLetters[CHOOSE i \in 1..Len(LowerLetters) :
                                      LowerLetters[i] = c]
                ELSE c

\* s.upper()
Upper(s) == [i \in 1..Len(s) |-> UpperChar(s[i])]

LowerChar(c) == IF \E i \in 1..Len(UpperLetters) : UpperLetters[i] = c
                THEN LowerLetters[CHOOSE i \in 1..Len(UpperLetters) :
                                      UpperLetters[i] = c]
                ELSE c

Lower(s) == [i \in 1..Len(s) |-> LowerChar(s[i])]

SetMax(S) == CHOOSE m \in S : \A n \in S : n <= m

SetMin(S) == CHOOSE m \in S : \A n \in S : m <= n

\* SELECT max(cast(col AS INTEGER)): NULL over no rows
ScalarMax(S) == IF S = {} THEN SqlNull ELSE {SetMax(S)}

\* Python "v or default": the default replaces None and also 0
PyOr(v, default) == IF v = SqlNull \/ v = {0} THEN default
                    ELSE CHOOSE m \in v : TRUE

\* ------------------------------------------------------------------------
\* Codec runs: generate, then parse and validate_format of its result
\* ------------------------------------------------------------------------
CodecIdle == [pc |-> "idle", zone_code |-> NoText, sequence |-> 0,
              pda_id |-> NoText, parsed |-> Unset, valid |-> FALSE]

InitCodec ==
    /\ codec \in {[pc |-> "start", zone_code |-> z, sequence |-> n,
                   pda_id |-> NoText, parsed |-> Unset, valid |-> FALSE] :
                      z \in ZoneCodeSamples, n \in SequenceSamples}
    /\ address_sequence = [z \in ZoneCodes |-> 0]
    /\ rowLock = [z \in ZoneCodes |-> 0]
    /\ addresses = {}
    /\ reg = [w \in Workers |-> RegIdle]
    /\ minted = {}
    /\ mintCount = 0
    /\ delCount = 0
    /\ GeoUnused

CodecGenerate ==
    /\ codec.pc = "start"
    /\ LET r == generate(codec.zone_code, codec.sequence)
       IN  codec' = IF IsError(r)
                    THEN [codec EXCEPT !.pc = "done", !.parsed = ValueError]
                    ELSE [codec EXCEPT !.pc = "generated", !.pda_id = r.text]
    /\ UNCHANGED <<pdaVars, geoVars>>

CodecParse ==
    /\ codec.pc = "generated"
    /\ codec' = [codec EXCEPT !.pc = "parsed", !.parsed = parse(codec.pda_id)]
    /\ UNCHANGED <<pdaVars, geoVars>>

CodecValidate ==
    /\ codec.pc = "parsed"
    /\ codec' = [codec EXCEPT !.pc = "done",
                              !.valid = validate_format(codec.pda_id)]
    /\ UNCHANGED <<pdaVars, geoVars>>

NextCodec == CodecGenerate \/ CodecParse \/ CodecValidate

SpecCodec == InitCodec /\ [][NextCodec]_vars

\* The inputs generate accepts: a zone code NNNN-NNN and a sequence in range.
CodecInputValid ==
    /\ ZoneCodePattern(codec.zone_code)
    /\ 1 <= codec.sequence /\ codec.sequence <= MAX_SEQUENCE

\* C10: for a well-formed zone code and a sequence in 1..999999, parsing the
\* generated PDA-ID gives back the zone's primary code, its segment and the
\* sequence, and validate_format of the generated PDA-ID is true.
C10_RoundTrip ==
    (codec.pc = "done" /\ CodecInputValid) =>
        /\ ~IsError(codec.parsed)
        /\ codec.parsed.primary_code = SubSeq(codec.zone_code, 1, 4)
        /\ codec.parsed.segment = SubSeq(codec.zone_code, 6, 8)
        /\ codec.parsed.sequence = codec.sequence
        /\ codec.valid = TRUE

C10_Witness ==
    /\ codec.pc = "done" /\ CodecInputValid
    /\ codec.sequence = 142
    /\ codec.pda_id # NoText

\* C12: generate for zone "2310-047" and sequence 142 returns exactly
\* "SL-2310-047-000142-7", and parse of "SL-2310-047-000142-7" succeeds with
\* primary code "2310", segment "047" and sequence 142.
C12_DocumentedExample ==
    LET documented == <<"S", "L", "-", "2", "3", "1", "0", "-", "0", "4", "7",
                        "-", "0", "0", "0", "1", "4", "2", "-", "7">>
    IN  /\ (/\ codec.pc \in {"generated", "parsed", "done"}
            /\ codec.zone_code = <<"2", "3", "1", "0", "-", "0", "4", "7">>
            /\ codec.sequence = 142) => codec.pda_id = documented
        /\ ~IsError(parse(documented))
        /\ parse(documented).primary_code = <<"2", "3", "1", "0">>
        /\ parse(documented).segment = <<"0", "4", "7">>
        /\ parse(documented).sequence = 142

\* ------------------------------------------------------------------------
\* A generated PDA-ID with one digit of its numeric payload replaced, then
\* validate_format of the result
\* ------------------------------------------------------------------------
\* SL-XXXX-YYY-NNNNNN-C: the 13 payload digits, as 1-based positions
PayloadPositions == (4..7) \cup (9..11) \cup (13..18)

TamperSequences == (1..MaxSeqSample) \cup {142, MAX_SEQUENCE}

InitTamper ==
    /\ codec \in {[pc |-> "start", zone_code |-> z, sequence |-> n,
                   pda_id |-> NoText, original |-> NoText, valid |-> FALSE] :
                      z \in ZoneCodeSamples \ MalformedZoneCodes,
                      n \in TamperSequences}
    /\ address_sequence = [z \in ZoneCodes |-> 0]
    /\ rowLock = [z \in ZoneCodes |-> 0]
    /\ addresses = {}
    /\ reg = [w \in Workers |-> RegIdle]
    /\ minted = {}
    /\ mintCount = 0
    /\ delCount = 0
    /\ GeoUnused

TamperGenerate ==
    /\ codec.pc = "start"
    /\ LET r == generate(codec.zone_code, codec.sequence)
       IN  codec' = [codec EXCEPT !.pc = "generated", !.pda_id = r.text,
                                  !.original = r.text,
                                  !.valid = validate_format(r.text)]
    /\ UNCHANGED <<pdaVars, geoVars>>

\* One payload digit is replaced by a different digit.
TamperReplace ==
    /\ codec.pc = "generated"
    /\ \E i \in PayloadPositions, d \in DigitSet :
           /\ d # codec.pda_id[i]
           /\ codec' = [codec EXCEPT !.pc = "replaced", !.pda_id[i] = d]
    /\ UNCHANGED <<pdaVars, geoVars>>

TamperValidate ==
    /\ codec.pc = "replaced"
    /\ codec' = [codec EXCEPT !.pc = "done",
                              !.valid = validate_format(codec.pda_id)]
    /\ UNCHANGED <<pdaVars, geoVars>>

NextTamper == TamperGenerate \/ TamperReplace \/ TamperValidate

SpecTamper == InitTamper /\ [][NextTamper]_vars

\* C11: a valid PDA-ID in which exactly one of the 13 payload digits was
\* replaced by a different digit is rejected by validate_format.
C11_SingleDigitDetected ==
    /\ codec.pc = "generated" => codec.valid
    /\ codec.pc = "done" => ~codec.valid

\* A PDA-ID that was valid, with the last digit of its sequence replaced
\* and no other character changed, was validated.
C11_Witness ==
    /\ codec.pc = "done"
    /\ validate_format(codec.original)
    /\ Cardinality({i \in 1..20 : codec.pda_id[i] # codec.original[i]}) = 1
    /\ codec.pda_id[18] # codec.original[18]

\* ------------------------------------------------------------------------
\* register_address and PDAIDService.generate_next
\*
\* Each request runs in its own database session (one transaction).  The
\* UPDATE ... RETURNING of generate_next takes the row lock of the zone's
\* postal_zones row and holds it until the transaction ends; a second
\* UPDATE of the same row waits for it and then reads the committed value.
\* address_sequence is the committed value; the value a transaction has
\* written and not yet committed is in reg[w].sequence.
\* ------------------------------------------------------------------------
InitPda ==
    /\ codec = CodecIdle
    /\ address_sequence \in [ZoneCodes -> {0, MAX_SEQUENCE - NearCapacity}]
    /\ rowLock = [z \in ZoneCodes |-> NoWorker]
    /\ addresses = {}
    /\ reg = [w \in Workers |-> RegIdle]
    /\ minted = {}
    /\ mintCount = 0
    /\ delCount = 0
    /\ GeoUnused

\* GeocoderService.find_zone_for_point: the zone of the submitted point, or
\* no zone (HTTP 400, no state change).
RegisterFindZone(w) ==
    /\ reg[w].pc \in {"idle", "refused"}
    /\ mintCount < MaxMints
    /\ \E z \in ZoneCodes \cup {NoText} :
           reg' = IF z = NoText THEN [reg EXCEPT ![w] = RegIdle]
                  ELSE [reg EXCEPT ![w] = [RegIdle EXCEPT !.pc = "generate_next",
                                                          !.zone_code = z]]
    /\ UNCHANGED <<geoVars, codec, address_sequence, rowLock, addresses, minted,
                   mintCount, delCount>>

\* The UPDATE may run when no other transaction holds the row lock.
RowLockIgnored(z, w) == TRUE

RowLockFree(z, w) == rowLock[z] \in {NoWorker, w}

\* The single statement UPDATE postal_zones SET address_sequence =
\* address_sequence + 1 WHERE zone_code = :z RETURNING address_sequence.
UpdateReturningMaxExisting(z) ==
    LET used == {a.sequence : a \in {b \in addresses : b.zone_code = z}}
    IN  IF used = {} THEN 1
        ELSE (CHOOSE m \in used : \A n \in used : n <= m) + 1

\* A counter advanced by two: every other number is skipped.
UpdateReturningSkip(z) == address_sequence[z] + 2

UpdateReturning(z) == address_sequence[z] + 1

\* The requests waiting on the same row when w's UPDATE returns.
Rivals(w, z) == {v \in Workers \ {w} :
                    reg[v].pc = "generate_next" /\ reg[v].zone_code = z}

\* if sequence > cls.MAX_SEQUENCE
ReachedCapacityNever(sequence) == FALSE

ReachedCapacity(sequence) == sequence > MAX_SEQUENCE

\* What generate_next returns or raises for the sequence it read: its own
\* "has reached maximum capacity" ValueError, the ValueError of generate, or
\* the PDA-ID.
GenerateNextOutcome(z, sequence) ==
    IF ReachedCapacity(sequence) THEN [refusal |-> "capacity"]
    ELSE LET r == generate(z, sequence)
         IN  IF IsError(r) THEN [refusal |-> "generate"]
             ELSE [refusal |-> "none", text |-> r.text]

\* generate_next: the UPDATE, the capacity check and generate.  A ValueError
\* becomes HTTP 400 and the session is closed without commit: the increment
\* is rolled back and the row lock released.
RegisterGenerateNext(w) ==
    /\ reg[w].pc = "generate_next"
    /\ LET z == reg[w].zone_code
           sequence == UpdateReturning(z)
           outcome == GenerateNextOutcome(z, sequence)
       IN  /\ RowLockFree(z, w)
           /\ IF outcome.refusal # "none"
              THEN /\ reg' = [reg EXCEPT ![w] =
                                 [RegIdle EXCEPT !.pc = "refused",
                                                 !.zone_code = z,
                                                 !.refusal = outcome.refusal]]
                   /\ UNCHANGED <<rowLock, minted, mintCount>>
              ELSE LET pda == outcome.text
                   IN  /\ reg' = [v \in Workers |->
                                    IF v = w
                                    THEN [reg[w] EXCEPT !.pc = "commit",
                                                        !.sequence = sequence,
                                                        !.pda_id = pda]
                                    ELSE IF v \in Rivals(w, z)
                                    THEN [reg[v] EXCEPT !.waited = TRUE]
                                    ELSE reg[v]]
                       /\ rowLock' = [rowLock EXCEPT ![z] = w]
                       /\ minted' = minted \cup
                              {[zone_code |-> z, sequence |-> sequence,
                                pda_id |-> pda, afterWait |-> reg[w].waited]}
                       /\ mintCount' = mintCount + 1
    /\ UNCHANGED <<geoVars, codec, address_sequence, addresses, delCount>>

\* db.add(address); await db.commit(): the address row and the incremented
\* counter become visible together and the row lock is released.
RegisterCommit(w) ==
    /\ reg[w].pc = "commit"
    /\ LET z == reg[w].zone_code
       IN  /\ addresses' = addresses \cup
                  {[pda_id |-> reg[w].pda_id, zone_code |-> z,
                    sequence |-> reg[w].sequence,
                    verification_status |-> "pending"]}
           /\ address_sequence' = [address_sequence EXCEPT ![z] = reg[w].sequence]
           /\ rowLock' = [rowLock EXCEPT ![z] = NoWorker]
    /\ reg' = [reg EXCEPT ![w] = RegIdle]
    /\ UNCHANGED <<geoVars, codec, minted, mintCount, delCount>>

\* Deletion of an address row (the lifecycle of section 3 of the design:
\* "even if the owning address is later deleted").  It touches no counter.
DeleteAddress ==
    /\ delCount < MaxAddressDeletes
    /\ \E a \in addresses : addresses' = addresses \ {a}
    /\ delCount' = delCount + 1
    /\ UNCHANGED <<geoVars, codec, address_sequence, rowLock, reg, minted, mintCount>>

NextPda ==
    \/ \E w \in Workers : RegisterFindZone(w)
    \/ \E w \in Workers : RegisterGenerateNext(w)
    \/ \E w \in Workers : RegisterCommit(w)
    \/ DeleteAddress

SpecPda == InitPda /\ [][NextPda]_vars

\* C1: whatever the interleaving of generate_next calls, no two of them
\* receive the same sequence number of the same zone, and no two of them
\* return the same PDA-ID: every call that returned added a new (zone,
\* sequence) pair and a new PDA-ID to the set of those returned so far.
C1_UniqueMint ==
    /\ Cardinality(minted) = mintCount
    /\ \A a, b \in minted :
           (a.pda_id = b.pda_id
               \/ (a.zone_code = b.zone_code /\ a.sequence = b.sequence))
           => a = b

\* Two calls on the same zone overlapped: one was waiting on the row when
\* the other received its number, and then received its own.
C1_Witness ==
    \E a, b \in minted :
        /\ a # b
        /\ a.zone_code = b.zone_code
        /\ b.afterWait

\* C2: a zone's committed address_sequence never decreases, and a
\* generate_next never mints a (zone, sequence) pair that was minted before,
\* whether or not the address that owned it still exists.
C2_NeverReused ==
    [][/\ \A z \in ZoneCodes : address_sequence'[z] >= address_sequence[z]
       /\ mintCount' > mintCount =>
              \E m \in minted' :
                  /\ minted' = minted \cup {m}
                  /\ \A o \in minted :
                         <<o.zone_code, o.sequence>> # <<m.zone_code, m.sequence>>
      ]_vars

\* C13: every sequence a generate_next returned is in 1..999999; a call
\* that reads a counter value above 999999 is refused with the capacity
\* error; and once a zone's committed counter is at 999999 no later call
\* on that zone returns a PDA-ID and the counter stays where it is.
C13_CapacityRefused ==
    /\ [](/\ \A m \in minted : m.sequence \in 1..MAX_SEQUENCE
          /\ \A w \in Workers :
                 reg[w].pc = "refused" =>
                     /\ reg[w].refusal = "capacity"
                     /\ address_sequence[reg[w].zone_code] >= MAX_SEQUENCE)
    /\ [][\A z \in ZoneCodes :
              address_sequence[z] >= MAX_SEQUENCE =>
                  /\ \A m \in minted' \ minted : m.zone_code # z
                  /\ address_sequence'[z] = address_sequence[z]
              ]_vars

\* The call that received 999999 has committed, and a later call on the
\* same zone was refused.
C13_Witness ==
    \E w \in Workers :
        /\ reg[w].pc = "refused"
        /\ address_sequence[reg[w].zone_code] = MAX_SEQUENCE
        /\ \E m \in minted : /\ m.zone_code = reg[w].zone_code
                              /\ m.sequence = MAX_SEQUENCE

\* The database ends a waiting UPDATE with an error (deadlock, lock
\* timeout, serialization failure): `await db.execute(stmt)` raises a
\* DBAPIError, generate_next has no handler, register_address handles only
\* ValueError, and the request ends with that error, its session closed.
RegisterUpdateAborted(w) ==
    /\ reg[w].pc = "generate_next"
    /\ ~RowLockFree(reg[w].zone_code, w)
    /\ reg' = [reg EXCEPT ![w] = [RegIdle EXCEPT !.pc = "refused",
                                                 !.zone_code = reg[w].zone_code,
                                                 !.refusal = "DBAPIError"]]
    /\ UNCHANGED <<geoVars, codec, address_sequence, rowLock, addresses,
                   minted, mintCount, delCount>>

NextPdaRace ==
    \/ \E w \in Workers : RegisterFindZone(w)
    \/ \E w \in Workers : RegisterGenerateNext(w)
    \/ \E w \in Workers : RegisterUpdateAborted(w)
    \/ \E w \in Workers : RegisterCommit(w)

SpecPdaRace == InitPda /\ [][NextPdaRace]_vars

\* C14: a generate_next whose increment met a race (the row is held by
\* another transaction and the statement does not go through) stays in
\* flight for another attempt, or ends with ConcurrencyConflict; it ends
\* with no other error.
C14_RaceRetried ==
    [][\A w \in Workers :
          (/\ reg[w].pc = "generate_next"
           /\ ~RowLockFree(reg[w].zone_code, w)
           /\ reg'[w] # reg[w]) =>
              \/ reg'[w].pc = "generate_next"
              \/ /\ reg'[w].pc = "refused"
                 /\ reg'[w].refusal = "ConcurrencyConflict"
      ]_vars

\* A PDA-ID was minted, its address deleted, and a later PDA-ID was minted
\* in the same zone.
C2_Witness ==
    \E a, b \in minted :
        /\ a.zone_code = b.zone_code
        /\ a.sequence < b.sequence
        /\ address_sequence[a.zone_code] >= a.sequence
        /\ \A r \in addresses : r.pda_id # a.pda_id
        /\ \A w \in Workers : reg[w].pda_id # a.pda_id

\* ------------------------------------------------------------------------
\* api/v1/geography.py : the Region, District and Zone handlers
\*
\* A handler is a sequence of awaited database statements; each statement
\* reads the committed tables, and the handler's writes reach the tables at
\* its db.commit().  Every action below is one awaited statement together
\* with the Python that follows it up to the next await.  Codes are stored
\* as text and read back with cast(... AS INTEGER).
\* ------------------------------------------------------------------------
QuotaOf(cr, cd, cz, up, de) ==
    [op \in GeoOps |->
        IF op = "create_region" THEN cr
        ELSE IF op = "create_district" THEN cd
        ELSE IF op = "create_zone" THEN cz
        ELSE IF op \in {"update_region", "update_district", "update_zone"} THEN up
        ELSE de]

InitGeoTables ==
    /\ codec = CodecIdle
    /\ address_sequence = [z \in ZoneCodes |-> 0]
    /\ rowLock = [z \in ZoneCodes |-> NoWorker]
    /\ addresses = {}
    /\ reg = [w \in Workers |-> RegIdle]
    /\ minted = {}
    /\ mintCount = 0
    /\ delCount = 0
    /\ regions = {}
    /\ districts = {}
    /\ zones = {}
    /\ nextId = [regions |-> 1, districts |-> 1, zones |-> 1]
    /\ req = [w \in GeoWorkers |-> ReqIdle]

nonGeoVars == <<codec, address_sequence, rowLock, addresses, reg, minted,
                mintCount, delCount>>

\* A worker takes a new request when it has none in flight.
InFlight(op) == {v \in GeoWorkers : req[v].op = op
                                      /\ req[v].pc \notin {"idle", "done"}}

CanStart(w, op) ==
    /\ req[w].pc \in {"idle", "done"}
    /\ quota[op] > Cardinality(InFlight(op))

Begin(w, op, fields) == req' = [req EXCEPT ![w] = fields]

\* A committed write uses up one unit of its endpoint's quota.
Spend(op) == quota' = [quota EXCEPT ![op] = @ - 1]

\* The handler returns or raises: the response is kept until the worker's
\* next request.
Finish(w, r, resp) ==
    [r EXCEPT !.pc = "done", !.resp = resp,
              !.name = IF resp = "Conflict" THEN @ ELSE NoName,
              !.short_code = IF resp = "Conflict" THEN @ ELSE NoText,
              !.max_code = SqlNull, !.parent = NoRow, !.snap = NoRow]

TargetIds == 1..MaxTargetId

\* Names are uninterpreted: a request carries a name in use or the least
\* name not in use.
UsedNames == {r.name : r \in regions}

NameInputs ==
    (IF UsedNames = {} THEN {} ELSE {SetMin(UsedNames), SetMax(UsedNames)})
        \cup (IF (1..NumNames) \ UsedNames = {} THEN {}
              ELSE {SetMin((1..NumNames) \ UsedNames)})

UsedShorts == {r.short_code : r \in regions}

FreshShorts == {<<UpperLetters[i]>> : i \in 1..NumNames} \ UsedShorts

ShortIndex(c) == CHOOSE i \in 1..Len(UpperLetters) : <<UpperLetters[i]>> = c

\* The first short code in use (as stored, or in lower case) or the first
\* not in use.
ShortInputs ==
    (IF UsedShorts = {} THEN {}
     ELSE LET c == <<UpperLetters[SetMin({ShortIndex(u) : u \in UsedShorts})]>>
          IN  {c, Lower(c)})
        \cup (IF FreshShorts = {} THEN {}
              ELSE {<<UpperLetters[SetMin({i \in 1..NumNames :
                                      <<UpperLetters[i]>> \in FreshShorts})]>>})

\* District and zone names are never compared with one another: a request
\* carries the least name no row of the table has.
ChildNames(table) == {SetMin((1..NumNames) \ {r.name : r \in table})}

RowsById(table, id) == {r \in table : r.id = id}

\* result.scalar_one_or_none()
OneOrNone(rows) == IF rows = {} THEN NoRow ELSE CHOOSE r \in rows : TRUE

\* ---- create_region ------------------------------------------------------
\* lines 94-101: duplicate name
CreateRegionCheckName(w) ==
    /\ CanStart(w, "create_region")
    /\ \E name \in NameInputs, short \in ShortInputs :
           LET r == [ReqIdle EXCEPT !.op = "create_region", !.name = name,
                                    !.short_code = short]
           IN  Begin(w, "create_region",
                     IF {x \in regions : x.name = name} # {}
                     THEN Finish(w, r, "Conflict")
                     ELSE [r EXCEPT !.pc = "check_short"])
    /\ UNCHANGED <<nonGeoVars, regions, districts, zones, nextId, quota>>

\* lines 103-110: duplicate short_code
CreateRegionCheckShort(w) ==
    /\ req[w].op = "create_region" /\ req[w].pc = "check_short"
    /\ req' = [req EXCEPT ![w] =
                  IF {x \in regions : x.short_code = Upper(req[w].short_code)} # {}
                  THEN Finish(w, req[w], "Conflict")
                  ELSE [req[w] EXCEPT !.pc = "max_code"]]
    /\ UNCHANGED <<nonGeoVars, regions, districts, zones, nextId, quota>>

\* The module binds `select` and `func` of sqlalchemy and nothing else of it
\* (line 6): the lookup of the name `Integer` in func.cast(..., Integer) at
\* lines 113, 381 and 743 raises NameError and the request ends as a server
\* error.  The handlers are also followed past that lookup, as the statement
\* SELECT max(cast(... AS INTEGER)) they are written to issue.
IntegerLookup == {"NameError", "bound"}

\* next_code = str((max_code or 0) + 1)
NextRegionCode(max_code) == PyOr(max_code, 0) + 1

\* if int(next_code) > 9
MaxRegionCode == 9

\* lines 112-122: next region code and the capacity check
CreateRegionMaxCode(w) ==
    /\ req[w].op = "create_region" /\ req[w].pc = "max_code"
    /\ \E lookup \in IntegerLookup :
           LET max_code == ScalarMax({IntOf(x.code) : x \in regions})
               next_code == Str(NextRegionCode(max_code))
           IN  req' = [req EXCEPT ![w] =
                          IF lookup = "NameError"
                          THEN Finish(w, req[w], "ServerError")
                          ELSE IF IntOf(next_code) > MaxRegionCode
                          THEN Finish(w, req[w], "CapacityExceeded")
                          ELSE [req[w] EXCEPT !.pc = "commit",
                                              !.max_code = {IntOf(next_code)}]]
    /\ UNCHANGED <<nonGeoVars, regions, districts, zones, nextId, quota>>

\* lines 124-134: INSERT and commit
CreateRegionCommit(w) ==
    /\ req[w].op = "create_region" /\ req[w].pc = "commit"
    /\ LET row == [id |-> nextId.regions,
                   code |-> Str(PyOr(req[w].max_code, 0)),
                   name |-> req[w].name,
                   short_code |-> Upper(req[w].short_code),
                   is_locked |-> FALSE]
       IN  /\ regions' = regions \cup {row}
           /\ req' = [req EXCEPT ![w] =
                         Finish(w, [req[w] EXCEPT !.created = row.id], "Created")]
    /\ nextId' = [nextId EXCEPT !.regions = @ + 1]
    /\ Spend("create_region")
    /\ UNCHANGED <<nonGeoVars, districts, zones>>

\* ---- update_region ------------------------------------------------------
\* lines 196-210: load the region, refuse a locked one
UpdateRegionLoad(w) ==
    /\ CanStart(w, "update_region")
    /\ \E id \in TargetIds, name \in NameInputs \cup {NoName},
          short \in ShortInputs \cup {NoText} :
           LET region == OneOrNone(RowsById(regions, id))
               r == [ReqIdle EXCEPT !.op = "update_region", !.id = id,
                                    !.name = name, !.short_code = short,
                                    !.snap = region]
           IN  Begin(w, "update_region",
                     IF region = NoRow THEN Finish(w, r, "NotFound")
                     ELSE IF region.is_locked THEN Finish(w, r, "NodeLocked")
                     ELSE [r EXCEPT !.pc = "check_name"])
    /\ UNCHANGED <<nonGeoVars, regions, districts, zones, nextId, quota>>

\* lines 213-222: a new name must not be another region's name
UpdateRegionCheckName(w) ==
    /\ req[w].op = "update_region" /\ req[w].pc = "check_name"
    /\ req' = [req EXCEPT ![w] =
                  IF req[w].name # NoName
                     /\ {x \in regions : x.name = req[w].name
                                           /\ x.id # req[w].id} # {}
                  THEN Finish(w, req[w], "Conflict")
                  ELSE [req[w] EXCEPT !.pc = "check_short"]]
    /\ UNCHANGED <<nonGeoVars, regions, districts, zones, nextId, quota>>

\* lines 224-232: a new short code must not be another region's
UpdateRegionCheckShort(w) ==
    /\ req[w].op = "update_region" /\ req[w].pc = "check_short"
    /\ req' = [req EXCEPT ![w] =
                  IF req[w].short_code # NoText
                     /\ {x \in regions : x.short_code = Upper(req[w].short_code)
                                           /\ x.id # req[w].id} # {}
                  THEN Finish(w, req[w], "Conflict")
                  ELSE [req[w] EXCEPT !.pc = "commit"]]
    /\ UNCHANGED <<nonGeoVars, regions, districts, zones, nextId, quota>>

\* The row after the UPDATE of the columns the handler assigned.
RegionRenamed(row, r) ==
    [row EXCEPT !.name = IF r.name # NoName THEN r.name ELSE @,
                !.short_code = IF r.short_code # NoText
                               THEN Upper(r.short_code) ELSE @]

\* lines 240-241: UPDATE ... WHERE id and commit; a row that is gone makes
\* the flush fail and nothing is written.
UpdateRegionCommit(w) ==
    /\ req[w].op = "update_region" /\ req[w].pc = "commit"
    /\ LET rows == RowsById(regions, req[w].id)
           changed == RegionRenamed(req[w].snap, req[w]) # req[w].snap
       IN  IF rows = {} /\ changed
           THEN /\ req' = [req EXCEPT ![w] = Finish(w, req[w], "ServerError")]
                /\ UNCHANGED <<regions, quota>>
           ELSE /\ Spend("update_region")
                /\ regions' = (regions \ rows)
                                 \cup {RegionRenamed(x, req[w]) : x \in rows}
                /\ req' = [req EXCEPT ![w] = Finish(w, req[w], "Updated")]
    /\ UNCHANGED <<nonGeoVars, districts, zones, nextId>>

\* ---- delete_region ------------------------------------------------------
\* lines 270-284: load the region, refuse a locked one
DeleteRegionLoad(w) ==
    /\ CanStart(w, "delete_region")
    /\ \E id \in TargetIds :
           LET region == OneOrNone(RowsById(regions, id))
               r == [ReqIdle EXCEPT !.op = "delete_region", !.id = id,
                                    !.snap = region]
           IN  Begin(w, "delete_region",
                     IF region = NoRow THEN Finish(w, r, "NotFound")
                     ELSE IF region.is_locked THEN Finish(w, r, "NodeLocked")
                     ELSE [r EXCEPT !.pc = "commit"])
    /\ UNCHANGED <<nonGeoVars, regions, districts, zones, nextId, quota>>

\* lines 286-287: DELETE ... WHERE id and commit
DeleteRegionCommit(w) ==
    /\ req[w].op = "delete_region" /\ req[w].pc = "commit"
    /\ LET rows == RowsById(regions, req[w].id)
       IN  IF rows = {}
           THEN /\ req' = [req EXCEPT ![w] = Finish(w, req[w], "ServerError")]
                /\ UNCHANGED <<regions, quota>>
           ELSE /\ Spend("delete_region")
                /\ regions' = regions \ rows
                /\ req' = [req EXCEPT ![w] = Finish(w, req[w], "Deleted")]
    /\ UNCHANGED <<nonGeoVars, districts, zones, nextId>>

\* ---- create_district ----------------------------------------------------
\* lines 369-378: load the parent region
CreateDistrictLoadRegion(w) ==
    /\ CanStart(w, "create_district")
    /\ \E region_id \in TargetIds, name \in ChildNames(districts) :
           LET region == OneOrNone(RowsById(regions, region_id))
               r == [ReqIdle EXCEPT !.op = "create_district", !.id = region_id,
                                    !.name = name, !.parent = region]
           IN  Begin(w, "create_district",
                     IF region = NoRow THEN Finish(w, r, "NotFound")
                     ELSE [r EXCEPT !.pc = "max_code"])
    /\ UNCHANGED <<nonGeoVars, regions, districts, zones, nextId, quota>>

\* next_code = str((max_code or -1) + 1)
NextChildCode(max_code) == PyOr(max_code, -1) + 1

\* if int(next_code) > 9
MaxDistrictCode == 9

\* lines 380-392: next district code within the region, capacity check
CreateDistrictMaxCode(w) ==
    /\ req[w].op = "create_district" /\ req[w].pc = "max_code"
    /\ \E lookup \in IntegerLookup :
           LET max_code == ScalarMax({IntOf(d.code) :
                               d \in {x \in districts : x.region_id = req[w].id}})
               next_code == Str(NextChildCode(max_code))
           IN  req' = [req EXCEPT ![w] =
                          IF lookup = "NameError"
                          THEN Finish(w, req[w], "ServerError")
                          ELSE IF IntOf(next_code) > MaxDistrictCode
                          THEN Finish(w, req[w], "CapacityExceeded")
                          ELSE [req[w] EXCEPT !.pc = "commit",
                                              !.max_code = {IntOf(next_code)}]]
    /\ UNCHANGED <<nonGeoVars, regions, districts, zones, nextId, quota>>

\* region.is_locked = True / district.is_locked = True
LockParentForgotten(row) == row

LockParent(row) == [row EXCEPT !.is_locked = TRUE]

\* Other create requests on the same parent that are in flight.
Overlapping(w, op, id) ==
    {v \in GeoWorkers \ {w} :
        req[v].op = op /\ req[v].id = id /\ req[v].pc \in {"max_code", "commit"}}

\* lines 394-414: the flush updates the region row (when the loaded object
\* was not locked yet) and inserts the district; a region row that is gone
\* makes the UPDATE fail and nothing is written.
CreateDistrictCommit(w) ==
    /\ req[w].op = "create_district" /\ req[w].pc = "commit"
    /\ LET region == req[w].parent
           next_code == Str(PyOr(req[w].max_code, 0))
           rows == RowsById(regions, region.id)
           dirty == LockParent(region) # region
           row == [id |-> nextId.districts,
                   region_id |-> req[w].id,
                   code |-> next_code,
                   full_code |-> region.code \o next_code,
                   name |-> req[w].name,
                   numeric_code |-> NoText,
                   is_locked |-> FALSE]
           rivals == Overlapping(w, "create_district", req[w].id)
       IN  IF dirty /\ rows = {}
           THEN /\ req' = [req EXCEPT ![w] = Finish(w, req[w], "ServerError")]
                /\ UNCHANGED <<regions, districts, nextId, quota>>
           ELSE /\ Spend("create_district")
                /\ regions' = IF dirty
                              THEN (regions \ rows) \cup {LockParent(x) : x \in rows}
                              ELSE regions
                /\ districts' = districts \cup {row}
                /\ nextId' = [nextId EXCEPT !.districts = @ + 1]
                /\ req' = [v \in GeoWorkers |->
                             IF v = w
                             THEN [Finish(w, [req[w] EXCEPT !.created = row.id], "Created")
                                      EXCEPT !.raced = @ \/ rivals # {}]
                             ELSE IF v \in rivals
                             THEN [req[v] EXCEPT !.raced = TRUE]
                             ELSE req[v]]
    /\ UNCHANGED <<nonGeoVars, zones>>

\* ---- update_district ----------------------------------------------------
\* lines 490-504: load the district, refuse a locked one
UpdateDistrictLoad(w) ==
    /\ CanStart(w, "update_district")
    /\ \E id \in TargetIds, name \in ChildNames(districts) \cup {NoName} :
           LET district == OneOrNone(RowsById(districts, id))
               r == [ReqIdle EXCEPT !.op = "update_district", !.id = id,
                                    !.name = name, !.snap = district]
           IN  Begin(w, "update_district",
                     IF district = NoRow THEN Finish(w, r, "NotFound")
                     ELSE IF district.is_locked THEN Finish(w, r, "NodeLocked")
                     ELSE [r EXCEPT !.pc = "commit"])
    /\ UNCHANGED <<nonGeoVars, regions, districts, zones, nextId, quota>>

\* The row after the UPDATE of the columns the handler assigned.
Renamed(row, r) == [row EXCEPT !.name = IF r.name # NoName THEN r.name ELSE @]

\* lines 506-529
UpdateDistrictCommit(w) ==
    /\ req[w].op = "update_district" /\ req[w].pc = "commit"
    /\ LET rows == RowsById(districts, req[w].id)
           changed == Renamed(req[w].snap, req[w]) # req[w].snap
       IN  IF rows = {} /\ changed
           THEN /\ req' = [req EXCEPT ![w] = Finish(w, req[w], "ServerError")]
                /\ UNCHANGED <<districts, quota>>
           ELSE /\ Spend("update_district")
                /\ districts' = (districts \ rows)
                                   \cup {Renamed(x, req[w]) : x \in rows}
                /\ req' = [req EXCEPT ![w] = Finish(w, req[w], "Updated")]
    /\ UNCHANGED <<nonGeoVars, regions, zones, nextId>>

\* ---- delete_district ----------------------------------------------------
\* lines 565-579
DeleteDistrictLoad(w) ==
    /\ CanStart(w, "delete_district")
    /\ \E id \in TargetIds :
           LET district == OneOrNone(RowsById(districts, id))
               r == [ReqIdle EXCEPT !.op = "delete_district", !.id = id,
                                    !.snap = district]
           IN  Begin(w, "delete_district",
                     IF district = NoRow THEN Finish(w, r, "NotFound")
                     ELSE IF district.is_locked THEN Finish(w, r, "NodeLocked")
                     ELSE [r EXCEPT !.pc = "commit"])
    /\ UNCHANGED <<nonGeoVars, regions, districts, zones, nextId, quota>>

\* lines 581-582
DeleteDistrictCommit(w) ==
    /\ req[w].op = "delete_district" /\ req[w].pc = "commit"
    /\ LET rows == RowsById(districts, req[w].id)
       IN  IF rows = {}
           THEN /\ req' = [req EXCEPT ![w] = Finish(w, req[w], "ServerError")]
                /\ UNCHANGED <<districts, quota>>
           ELSE /\ Spend("delete_district")
                /\ districts' = districts \ rows
                /\ req' = [req EXCEPT ![w] = Finish(w, req[w], "Deleted")]
    /\ UNCHANGED <<nonGeoVars, regions, zones, nextId>>

\* ---- create_zone --------------------------------------------------------
\* lines 731-740: load the parent district together with its region
CreateZoneLoadDistrict(w) ==
    /\ CanStart(w, "create_zone")
    /\ \E district_id \in TargetIds, name \in ChildNames(zones) :
           LET district == OneOrNone(RowsById(districts, district_id))
               r == [ReqIdle EXCEPT !.op = "create_zone", !.id = district_id,
                                    !.name = name, !.parent = district]
           IN  Begin(w, "create_zone",
                     IF district = NoRow THEN Finish(w, r, "NotFound")
                     ELSE [r EXCEPT !.pc = "max_code",
                                    !.snap = OneOrNone(RowsById(regions,
                                                          district.region_id))])
    /\ UNCHANGED <<nonGeoVars, regions, districts, zones, nextId, quota>>

\* if next_num > 99
MaxZoneNumber == 99

\* lines 742-754: next zone number within the district, capacity check
CreateZoneMaxNumber(w) ==
    /\ req[w].op = "create_zone" /\ req[w].pc = "max_code"
    /\ \E lookup \in IntegerLookup :
           LET max_num == ScalarMax({IntOf(z.zone_number) :
                              z \in {x \in zones : x.district_id = req[w].id}})
               next_num == NextChildCode(max_num)
           IN  req' = [req EXCEPT ![w] =
                          IF lookup = "NameError"
                          THEN Finish(w, req[w], "ServerError")
                          ELSE IF next_num > MaxZoneNumber
                          THEN Finish(w, req[w], "CapacityExceeded")
                          ELSE [req[w] EXCEPT !.pc = "commit",
                                              !.max_code = {next_num}]]
    /\ UNCHANGED <<nonGeoVars, regions, districts, zones, nextId, quota>>

\* region_map = {"W": 1, "N": 2, "NW": 3, "S": 4, "E": 5}; .get(code, 1)
RegionMapGet(code) ==
    IF code = <<"W">> THEN 1
    ELSE IF code = <<"N">> THEN 2
    ELSE IF code = <<"N", "W">> THEN 3
    ELSE IF code = <<"S">> THEN 4
    ELSE IF code = <<"E">> THEN 5
    ELSE 1

\* lines 758-771: the zone's primary code
PrimaryCodeOf(district, region, next_num) ==
    IF district.numeric_code # NoText
    THEN district.numeric_code \o ZFill(Str(next_num), 2)
    ELSE LET region_num == IF region # NoRow THEN RegionMapGet(region.code) ELSE 1
             district_num == IF AllDigits(district.code, 1, Len(district.code))
                             THEN IntOf(district.code) ELSE 0
         IN  Str(region_num) \o Str(district_num) \o ZFill(Str(next_num), 2)

\* lines 756-800: the flush updates the district row (when the loaded
\* object was not locked yet) and inserts the zone.
CreateZoneCommit(w) ==
    /\ req[w].op = "create_zone" /\ req[w].pc = "commit"
    /\ LET district == req[w].parent
           next_num == PyOr(req[w].max_code, 0)
           rows == RowsById(districts, district.id)
           dirty == LockParent(district) # district
           row == [id |-> nextId.zones,
                   district_id |-> req[w].id,
                   zone_number |-> ZFill(Str(next_num), 3),
                   primary_code |-> PrimaryCodeOf(district, req[w].snap, next_num),
                   name |-> req[w].name,
                   is_locked |-> FALSE]
           rivals == Overlapping(w, "create_zone", req[w].id)
       IN  IF dirty /\ rows = {}
           THEN /\ req' = [req EXCEPT ![w] = Finish(w, req[w], "ServerError")]
                /\ UNCHANGED <<districts, zones, nextId, quota>>
           ELSE /\ Spend("create_zone")
                /\ districts' = IF dirty
                                THEN (districts \ rows)
                                        \cup {LockParent(x) : x \in rows}
                                ELSE districts
                /\ zones' = zones \cup {row}
                /\ nextId' = [nextId EXCEPT !.zones = @ + 1]
                /\ req' = [v \in GeoWorkers |->
                             IF v = w
                             THEN [Finish(w, [req[w] EXCEPT !.created = row.id], "Created")
                                      EXCEPT !.raced = @ \/ rivals # {}]
                             ELSE IF v \in rivals
                             THEN [req[v] EXCEPT !.raced = TRUE]
                             ELSE req[v]]
    /\ UNCHANGED <<nonGeoVars, regions>>

\* ---- update_zone --------------------------------------------------------
\* lines 890-900: load the zone; the handler has no is_locked test
UpdateZoneLoad(w) ==
    /\ CanStart(w, "update_zone")
    /\ \E id \in TargetIds, name \in ChildNames(zones) \cup {NoName} :
           LET zone == OneOrNone(RowsById(zones, id))
               r == [ReqIdle EXCEPT !.op = "update_zone", !.id = id,
                                    !.name = name, !.snap = zone]
           IN  Begin(w, "update_zone",
                     IF zone = NoRow THEN Finish(w, r, "NotFound")
                     ELSE [r EXCEPT !.pc = "commit"])
    /\ UNCHANGED <<nonGeoVars, regions, districts, zones, nextId, quota>>

\* lines 902-929
UpdateZoneCommit(w) ==
    /\ req[w].op = "update_zone" /\ req[w].pc = "commit"
    /\ LET rows == RowsById(zones, req[w].id)
           changed == Renamed(req[w].snap, req[w]) # req[w].snap
       IN  IF rows = {} /\ changed
           THEN /\ req' = [req EXCEPT ![w] = Finish(w, req[w], "ServerError")]
                /\ UNCHANGED <<zones, quota>>
           ELSE /\ Spend("update_zone")
                /\ zones' = (zones \ rows) \cup {Renamed(x, req[w]) : x \in rows}
                /\ req' = [req EXCEPT ![w] = Finish(w, req[w], "Updated")]
    /\ UNCHANGED <<nonGeoVars, regions, districts, nextId>>

\* ---- delete_zone --------------------------------------------------------
\* lines 974-988
DeleteZoneLoad(w) ==
    /\ CanStart(w, "delete_zone")
    /\ \E id \in TargetIds :
           LET zone == OneOrNone(RowsById(zones, id))
               r == [ReqIdle EXCEPT !.op = "delete_zone", !.id = id,
                                    !.snap = zone]
           IN  Begin(w, "delete_zone",
                     IF zone = NoRow THEN Finish(w, r, "NotFound")
                     ELSE IF zone.is_locked THEN Finish(w, r, "NodeLocked")
                     ELSE [r EXCEPT !.pc = "commit"])
    /\ UNCHANGED <<nonGeoVars, regions, districts, zones, nextId, quota>>

\* lines 990-991
DeleteZoneCommit(w) ==
    /\ req[w].op = "delete_zone" /\ req[w].pc = "commit"
    /\ LET rows == RowsById(zones, req[w].id)
       IN  IF rows = {}
           THEN /\ req' = [req EXCEPT ![w] = Finish(w, req[w], "ServerError")]
                /\ UNCHANGED <<zones, quota>>
           ELSE /\ Spend("delete_zone")
                /\ zones' = zones \ rows
                /\ req' = [req EXCEPT ![w] = Finish(w, req[w], "Deleted")]
    /\ UNCHANGED <<nonGeoVars, regions, districts, nextId>>

\* ---- a zone's lock -------------------------------------------------------
\* delete_zone reads Zone.is_locked and no handler writes it: the flag of a
\* zone is set outside these handlers, between two requests, once the zone
\* has a child.
LockZone ==
    /\ \A w \in GeoWorkers : req[w].pc \in {"idle", "done"}
    /\ \E z \in zones :
           /\ ~z.is_locked
           /\ zones' = (zones \ {z}) \cup {LockParent(z)}
    /\ UNCHANGED <<nonGeoVars, regions, districts, nextId, req, quota>>

\* ------------------------------------------------------------------------
\* Specifications of the hierarchy
\* ------------------------------------------------------------------------
SerialWorkers == {1}

\* Region allocation alone, one request at a time, up to the tenth call.
InitRegions ==
    /\ InitGeoTables
    /\ quota = QuotaOf(MaxCreateRegion, 0, 0, MaxUpdate, MaxDelete)

NextRegions ==
    \/ \E w \in SerialWorkers : CreateRegionCheckName(w)
    \/ \E w \in SerialWorkers : CreateRegionCheckShort(w)
    \/ \E w \in SerialWorkers : CreateRegionMaxCode(w)
    \/ \E w \in SerialWorkers : CreateRegionCommit(w)
    \/ \E w \in SerialWorkers : UpdateRegionLoad(w)
    \/ \E w \in SerialWorkers : UpdateRegionCheckName(w)
    \/ \E w \in SerialWorkers : UpdateRegionCheckShort(w)
    \/ \E w \in SerialWorkers : UpdateRegionCommit(w)
    \/ \E w \in SerialWorkers : DeleteRegionLoad(w)
    \/ \E w \in SerialWorkers : DeleteRegionCommit(w)

SpecRegions == InitRegions /\ [][NextRegions]_vars

\* C3: starting from no regions and with no region deleted, the create_region
\* calls whose name and short code are not in use succeed in turn with codes
\* 1, 2, ..., 9 (the n-th region holds code n), and such a call fails only
\* when nine regions exist, with CapacityExceeded, creating no region.
C3_NineThenFull ==
    Cardinality(regions) = nextId.regions - 1 =>
        /\ \A r \in regions : r.code = Str(r.id) /\ r.id \in 1..9
        /\ \A w \in SerialWorkers :
               (req[w].op = "create_region" /\ req[w].pc = "done"
                   /\ req[w].resp # "Conflict") =>
                   \/ req[w].resp = "Created"
                   \/ req[w].resp = "CapacityExceeded"
                        /\ Cardinality(regions) = 9

\* The whole hierarchy, one request at a time.
InitGeo ==
    /\ InitGeoTables
    /\ quota = QuotaOf(GeoCreateRegion, MaxCreateDistrict, MaxCreateZone,
                       MaxUpdate, MaxDelete)

NextGeo ==
    \/ NextRegions
    \/ \E w \in SerialWorkers : CreateDistrictLoadRegion(w)
    \/ \E w \in SerialWorkers : CreateDistrictMaxCode(w)
    \/ \E w \in SerialWorkers : CreateDistrictCommit(w)
    \/ \E w \in SerialWorkers : UpdateDistrictLoad(w)
    \/ \E w \in SerialWorkers : UpdateDistrictCommit(w)
    \/ \E w \in SerialWorkers : DeleteDistrictLoad(w)
    \/ \E w \in SerialWorkers : DeleteDistrictCommit(w)
    \/ \E w \in SerialWorkers : CreateZoneLoadDistrict(w)
    \/ \E w \in SerialWorkers : CreateZoneMaxNumber(w)
    \/ \E w \in SerialWorkers : CreateZoneCommit(w)
    \/ \E w \in SerialWorkers : UpdateZoneLoad(w)
    \/ \E w \in SerialWorkers : UpdateZoneCommit(w)
    \/ \E w \in SerialWorkers : DeleteZoneLoad(w)
    \/ \E w \in SerialWorkers : DeleteZoneCommit(w)
    \/ LockZone

SpecGeo == InitGeo /\ [][NextGeo]_vars

C8_LockedRefused ==
    [][/\ \A x \in regions : x.is_locked => x \in regions'
       /\ \A x \in districts : x.is_locked => x \in districts'
       /\ \A x \in zones : x.is_locked => x \in zones'
       /\ \A w \in SerialWorkers :
              LET r == req'[w]
                  table == IF r.op \in {"update_region", "delete_region"}
                           THEN regions
                           ELSE IF r.op \in {"update_district", "delete_district"}
                           THEN districts
                           ELSE zones
              IN  (/\ req[w].pc \in {"idle", "done"}
                   /\ r # req[w]
                   /\ r.op \in {"update_region", "delete_region",
                                 "update_district", "delete_district",
                                 "update_zone", "delete_zone"}
                   /\ \E x \in table : x.id = r.id /\ x.is_locked)
                      => r.resp = "NodeLocked"
      ]_vars

InitLock ==
    /\ InitGeoTables
    /\ quota = QuotaOf(LockCreateRegion, LockCreateDistrict, LockCreateZone,
                       LockUpdate, LockDelete)

NextLock ==
    \/ \E w \in SerialWorkers : CreateRegionCheckName(w)
    \/ \E w \in SerialWorkers : CreateRegionCheckShort(w)
    \/ \E w \in SerialWorkers : CreateRegionMaxCode(w)
    \/ \E w \in SerialWorkers : CreateRegionCommit(w)
    \/ \E w \in SerialWorkers : DeleteRegionLoad(w)
    \/ \E w \in SerialWorkers : DeleteRegionCommit(w)
    \/ \E w \in SerialWorkers : CreateDistrictLoadRegion(w)
    \/ \E w \in SerialWorkers : CreateDistrictMaxCode(w)
    \/ \E w \in SerialWorkers : CreateDistrictCommit(w)
    \/ \E w \in SerialWorkers : UpdateDistrictLoad(w)
    \/ \E w \in SerialWorkers : UpdateDistrictCommit(w)
    \/ \E w \in SerialWorkers : DeleteDistrictLoad(w)
    \/ \E w \in SerialWorkers : DeleteDistrictCommit(w)
    \/ \E w \in SerialWorkers : CreateZoneLoadDistrict(w)
    \/ \E w \in SerialWorkers : CreateZoneMaxNumber(w)
    \/ \E w \in SerialWorkers : CreateZoneCommit(w)
    \/ \E w \in SerialWorkers : DeleteZoneLoad(w)
    \/ \E w \in SerialWorkers : DeleteZoneCommit(w)

SpecLock == InitLock /\ [][NextLock]_vars

InitGeoConc ==
    /\ InitGeoTables
    /\ quota = QuotaOf(ConcCreateRegion, ConcCreateDistrict, 0, 0, 0)

NextGeoConc ==
    \/ \E w \in GeoWorkers : CreateRegionCheckName(w)
    \/ \E w \in GeoWorkers : CreateRegionCheckShort(w)
    \/ \E w \in GeoWorkers : CreateRegionMaxCode(w)
    \/ \E w \in GeoWorkers : CreateRegionCommit(w)
    \/ \E w \in GeoWorkers : CreateDistrictLoadRegion(w)
    \/ \E w \in GeoWorkers : CreateDistrictMaxCode(w)
    \/ \E w \in GeoWorkers : CreateDistrictCommit(w)

SpecGeoConc == InitGeoConc /\ [][NextGeoConc]_vars

ValidationStatus ==
    [PASSED |-> "passed", FAILED |-> "failed", WARNING |-> "warning"]

ValidationType ==
    [LAND_CHECK |-> "land_check", ZONE_CONTAINMENT |-> "zone_containment",
     ZONE_OVERLAP |-> "zone_overlap",
     BOUNDARY_CROSSING |-> "boundary_crossing",
     GEOMETRY_VALID |-> "geometry_valid",
     COORDINATE_BOUNDS |-> "coordinate_bounds",
     GEOHASH_CONSISTENCY |-> "geohash_consistency"]

\* Optional details of a ValidationResult left at None
NoDetails == [k \in {} |-> NoText]

ValidationResult(validation_type, status, message, details) ==
    [validation_type |-> validation_type, status |-> status,
     message |-> message, details |-> details]

\* Coordinates are in tenths of a degree.
SIERRA_LEONE_BOUNDS ==
    [min_lat |-> 69, max_lat |-> 100, min_lng |-> -135, max_lng |-> -103]

is_in_sierra_leone(lat, lng) ==
    /\ SIERRA_LEONE_BOUNDS.min_lat <= lat /\ lat <= SIERRA_LEONE_BOUNDS.max_lat
    /\ SIERRA_LEONE_BOUNDS.min_lng <= lng /\ lng <= SIERRA_LEONE_BOUNDS.max_lng

_check_bounds(latitude, longitude) ==
    IF ~is_in_sierra_leone(latitude, longitude)
    THEN ValidationResult(ValidationType.COORDINATE_BOUNDS, ValidationStatus.FAILED,
                          "Coordinates are outside Sierra Leone",
                          [latitude |-> latitude, longitude |-> longitude,
                           bounds |-> SIERRA_LEONE_BOUNDS])
    ELSE ValidationResult(ValidationType.COORDINATE_BOUNDS, ValidationStatus.PASSED,
                          "Coordinates within Sierra Leone bounds", NoDetails)

\* SELECT EXISTS(SELECT 1 FROM land_boundaries WHERE ST_Contains(...)):
\* one row holding true or false, whatever the table holds.
SelectExistsLand(land_boundaries) ==
    IF \E polygon \in land_boundaries.rows : polygon.contains_point
    THEN "true" ELSE "false"

_check_on_land(latitude, longitude, land_boundaries, raises) ==
    IF raises \/ ~land_boundaries.created
    THEN ValidationResult(ValidationType.LAND_CHECK, ValidationStatus.WARNING,
                          "Could not verify land boundary", NoDetails)
    ELSE LET is_on_land == SelectExistsLand(land_boundaries)
         IN  IF is_on_land = "NULL"
             THEN ValidationResult(ValidationType.LAND_CHECK, ValidationStatus.WARNING,
                      "Land boundary data not available for validation",
                      NoDetails)
             ELSE IF is_on_land = "false"
             THEN ValidationResult(ValidationType.LAND_CHECK, ValidationStatus.FAILED,
                      "Address point is not on land (possibly water/ocean)",
                      [latitude |-> latitude, longitude |-> longitude])
             ELSE ValidationResult(ValidationType.LAND_CHECK, ValidationStatus.PASSED,
                      "Address point is on land", NoDetails)

ZoneMismatchIgnored(expected_zone_code, found_zone) == FALSE

\* `expected_zone_code and found_zone != expected_zone_code`
ZoneMismatch(expected_zone_code, found_zone) ==
    expected_zone_code # NoText /\ found_zone # expected_zone_code

\* row is the row LIMIT 1 kept, NoRow when no zone contains the point.
_check_zone_containment(latitude, longitude, row, expected_zone_code, raises) ==
    IF raises
    THEN ValidationResult(ValidationType.ZONE_CONTAINMENT, ValidationStatus.WARNING,
                          "Could not verify zone containment", NoDetails)
    ELSE IF row = NoRow
    THEN ValidationResult(ValidationType.ZONE_CONTAINMENT, ValidationStatus.FAILED,
                          "Address point is not inside any postal zone",
                          [latitude |-> latitude, longitude |-> longitude])
    ELSE IF ZoneMismatch(expected_zone_code, row.zone_code)
    THEN ValidationResult(ValidationType.ZONE_CONTAINMENT, ValidationStatus.WARNING,
                          "Address is in zone found, not expected zone",
                          [found_zone |-> row.zone_code,
                           expected_zone |-> expected_zone_code,
                           zone_name |-> row.zone_name,
                           district |-> row.district_name])
    ELSE ValidationResult(ValidationType.ZONE_CONTAINMENT, ValidationStatus.PASSED,
                          "Address is inside zone",
                          [zone_code |-> row.zone_code,
                           zone_name |-> row.zone_name,
                           district |-> row.district_name])

\* distance: metres between the point and the centre of its precision-9 cell
_check_geohash_consistency(distance) ==
    IF distance > 10
    THEN ValidationResult(ValidationType.GEOHASH_CONSISTENCY, ValidationStatus.WARNING,
                          "Geohash center is away from coordinates",
                          [distance_meters |-> distance])
    ELSE ValidationResult(ValidationType.GEOHASH_CONSISTENCY, ValidationStatus.PASSED,
                          "Geohash is consistent with coordinates",
                          NoDetails)

\* is_valid: the scalar of SELECT ST_IsValid(...), "true" or "false"
_check_geometry_valid(is_valid, raises) ==
    IF raises
    THEN ValidationResult(ValidationType.GEOMETRY_VALID, ValidationStatus.FAILED,
                          "Geometry validation error", NoDetails)
    ELSE IF is_valid # "true"
    THEN ValidationResult(ValidationType.GEOMETRY_VALID, ValidationStatus.FAILED,
                          "Zone has invalid geometry", NoDetails)
    ELSE ValidationResult(ValidationType.GEOMETRY_VALID, ValidationStatus.PASSED,
                          "Zone geometry is valid", NoDetails)

_check_zone_overlaps(overlaps, raises) ==
    IF raises
    THEN ValidationResult(ValidationType.ZONE_OVERLAP, ValidationStatus.WARNING,
                          "Could not check zone overlaps", NoDetails)
    ELSE IF overlaps # {}
    THEN ValidationResult(ValidationType.ZONE_OVERLAP, ValidationStatus.FAILED,
                          "Zone overlaps with other zone(s)",
                          [overlapping_zones |-> overlaps])
    ELSE ValidationResult(ValidationType.ZONE_OVERLAP, ValidationStatus.PASSED,
                          "Zone does not overlap other zones", NoDetails)

CrossedWardsFail == ValidationStatus.FAILED

\* the status given to a zone that crosses ward boundaries
CrossedWardsStatus == ValidationStatus.WARNING

_check_ward_boundary_crossing(crossed_wards, raises) ==
    IF raises
    THEN ValidationResult(ValidationType.BOUNDARY_CROSSING, ValidationStatus.WARNING,
                          "Ward boundary check unavailable", NoDetails)
    ELSE IF crossed_wards # {}
    THEN ValidationResult(ValidationType.BOUNDARY_CROSSING, CrossedWardsStatus,
                          "Zone crosses ward boundary(ies)",
                          [crossed_wards |-> crossed_wards])
    ELSE ValidationResult(ValidationType.BOUNDARY_CROSSING, ValidationStatus.PASSED,
                          "Zone does not cross ward boundaries", NoDetails)

\* `not any(r.status == ValidationStatus.FAILED for r in results)`
NoFailed(results) == ~\E i \in 1..Len(results) : results[i].status = ValidationStatus.FAILED

\* ---- inputs of a validation run ------------------------------------------
\* tenths of a degree on, inside and outside each edge of the bounds
CoordinateSamples == [latitude |-> {68, 69, 100, 101},
                      longitude |-> {-136, -135, -103, -102}]

Zone1100 == <<"1", "1", "0", "0">>

Zone1105 == <<"1", "1", "0", "5">>

\* rows of postal_zones whose geometry can contain the point or overlap
PostalZoneRows ==
    {[zone_code |-> Zone1100, zone_name |-> "Central Freetown",
      district_name |-> "Western Area Urban"],
     [zone_code |-> Zone1105, zone_name |-> "Kissy",
      district_name |-> "Western Area Urban"]}

ExpectedZoneCodes == {NoText, Zone1100, Zone1105}

\* land_boundaries: not created (the query raises), created and empty,
\* or holding polygons that do or do not contain the point
LandPolygons == {[name |-> "Sierra Leone", contains_point |-> TRUE],
                 [name |-> "Banana Islands", contains_point |-> FALSE]}

NoLandTable == [created |-> FALSE, rows |-> {}]

LandTables == {NoLandTable} \cup
              {[created |-> TRUE, rows |-> rows] : rows \in SUBSET LandPolygons}

\* metres from a point to the centre of its precision-9 geohash cell
GeohashOffsets == {0, 3}

WardIds == {1, 2}

\* the checks of each pipeline that query the engine
EngineChecks ==
    [point |-> {ValidationType.LAND_CHECK, ValidationType.ZONE_CONTAINMENT},
     zone |-> {ValidationType.GEOMETRY_VALID, ValidationType.ZONE_OVERLAP,
               ValidationType.BOUNDARY_CROSSING}]

ZoneRowStates == {"not found", "no geometry", "geometry"}

RunIdle == [pipeline |-> "none", pc |-> "idle", latitude |-> 0,
            longitude |-> 0, zone_code |-> NoText,
            land_boundaries |-> NoLandTable, containing |-> {},
            distance |-> 0, zone |-> "not found", st_is_valid |-> "true",
            overlaps |-> {}, crossed_wards |-> {}, raises |-> {},
            results |-> <<>>, is_valid |-> FALSE, response |-> "none"]

PointRuns ==
    {[RunIdle EXCEPT !.pipeline = "point", !.pc = "bounds",
                     !.latitude = lat, !.longitude = lng,
                     !.zone_code = expected, !.land_boundaries = land,
                     !.containing = containing, !.distance = d,
                     !.raises = raises] :
        lat \in CoordinateSamples.latitude,
        lng \in CoordinateSamples.longitude,
        expected \in ExpectedZoneCodes, land \in LandTables,
        containing \in SUBSET PostalZoneRows, d \in GeohashOffsets,
        raises \in SUBSET EngineChecks.point}

ZoneRuns ==
    {[RunIdle EXCEPT !.pipeline = "zone", !.pc = "load",
                     !.zone_code = Zone1100, !.zone = zone,
                     !.st_is_valid = valid, !.overlaps = overlaps,
                     !.crossed_wards = crossed, !.raises = raises] :
        zone \in ZoneRowStates, valid \in {"true", "false"},
        overlaps \in SUBSET {r \in PostalZoneRows : r.zone_code # Zone1100},
        crossed \in SUBSET WardIds, raises \in SUBSET EngineChecks.zone}

InitValidation ==
    /\ codec \in PointRuns \cup ZoneRuns
    /\ address_sequence = [z \in ZoneCodes |-> 0]
    /\ rowLock = [z \in ZoneCodes |-> 0]
    /\ addresses = {}
    /\ reg = [w \in Workers |-> RegIdle]
    /\ minted = {}
    /\ mintCount = 0
    /\ delCount = 0
    /\ GeoUnused

Append1(result, pc) ==
    codec' = [codec EXCEPT !.results = Append(@, result), !.pc = pc]

ShortCircuitNever(result) == FALSE

\* `if bounds_result.status == ValidationStatus.FAILED: return results`
ShortCircuit(result) == result.status = ValidationStatus.FAILED

\* ---- validate_address_point ----------------------------------------------
CheckBounds ==
    /\ codec.pipeline = "point" /\ codec.pc = "bounds"
    /\ LET bounds_result == _check_bounds(codec.latitude, codec.longitude)
       IN  Append1(bounds_result,
                   IF ShortCircuit(bounds_result) THEN "return" ELSE "land")
    /\ UNCHANGED <<pdaVars, geoVars>>

CheckOnLand ==
    /\ codec.pipeline = "point" /\ codec.pc = "land"
    /\ Append1(_check_on_land(codec.latitude, codec.longitude,
                              codec.land_boundaries,
                              ValidationType.LAND_CHECK \in codec.raises),
               "containment")
    /\ UNCHANGED <<pdaVars, geoVars>>

\* LIMIT 1 without ORDER BY keeps any one of the containing rows.
CheckZoneContainment ==
    /\ codec.pipeline = "point" /\ codec.pc = "containment"
    /\ \E row \in IF codec.containing = {} THEN {NoRow} ELSE codec.containing :
           Append1(_check_zone_containment(codec.latitude, codec.longitude,
                       row, codec.zone_code,
                       ValidationType.ZONE_CONTAINMENT \in codec.raises),
                   "geohash")
    /\ UNCHANGED <<pdaVars, geoVars>>

CheckGeohashConsistency ==
    /\ codec.pipeline = "point" /\ codec.pc = "geohash"
    /\ Append1(_check_geohash_consistency(codec.distance), "return")
    /\ UNCHANGED <<pdaVars, geoVars>>

\* validate_address: the verdict over the list validate_address_point gave
ValidateAddressReturn ==
    /\ codec.pipeline = "point" /\ codec.pc = "return"
    /\ codec' = [codec EXCEPT !.pc = "done", !.response = "ok",
                              !.is_valid = NoFailed(codec.results)]
    /\ UNCHANGED <<pdaVars, geoVars>>

\* ---- validate_zone and validate_zone_geometry ----------------------------
ValidateZoneLoad ==
    /\ codec.pipeline = "zone" /\ codec.pc = "load"
    /\ codec' = IF codec.zone = "not found"
                THEN [codec EXCEPT !.pc = "done", !.response = "404"]
                ELSE IF codec.zone = "no geometry"
                THEN [codec EXCEPT !.pc = "done", !.response = "ok",
                                   !.is_valid = FALSE, !.results = <<>>]
                ELSE [codec EXCEPT !.pc = "geometry_valid"]
    /\ UNCHANGED <<pdaVars, geoVars>>

CheckGeometryValid ==
    /\ codec.pipeline = "zone" /\ codec.pc = "geometry_valid"
    /\ Append1(_check_geometry_valid(codec.st_is_valid,
                                     ValidationType.GEOMETRY_VALID \in codec.raises),
               "overlaps")
    /\ UNCHANGED <<pdaVars, geoVars>>

CheckZoneOverlaps ==
    /\ codec.pipeline = "zone" /\ codec.pc = "overlaps"
    /\ Append1(_check_zone_overlaps(codec.overlaps,
                                    ValidationType.ZONE_OVERLAP \in codec.raises),
               "crossing")
    /\ UNCHANGED <<pdaVars, geoVars>>

CheckWardBoundaryCrossing ==
    /\ codec.pipeline = "zone" /\ codec.pc = "crossing"
    /\ Append1(_check_ward_boundary_crossing(codec.crossed_wards,
                   ValidationType.BOUNDARY_CROSSING \in codec.raises),
               "return")
    /\ UNCHANGED <<pdaVars, geoVars>>

ValidateZoneReturn ==
    /\ codec.pipeline = "zone" /\ codec.pc = "return"
    /\ codec' = [codec EXCEPT !.pc = "done", !.response = "ok",
                              !.is_valid = NoFailed(codec.results)]
    /\ UNCHANGED <<pdaVars, geoVars>>

NextValidation ==
    \/ CheckBounds
    \/ CheckOnLand
    \/ CheckZoneContainment
    \/ CheckGeohashConsistency
    \/ ValidateAddressReturn
    \/ ValidateZoneLoad
    \/ CheckGeometryValid
    \/ CheckZoneOverlaps
    \/ CheckWardBoundaryCrossing
    \/ ValidateZoneReturn

SpecValidation == InitValidation /\ [][NextValidation]_vars

\* C15: point validation runs its checks in the order bounds, land, zone
\* containment, geohash consistency; a point outside the national bounding
\* box gets exactly one result, ValidationType.COORDINATE_BOUNDS with status failed, and no
\* later check is ever run for it; a point inside gets exactly four results.
C15_OrderedShortCircuit ==
    codec.pipeline = "point" =>
        /\ Len(codec.results) <= 4
        /\ \A i \in 1..Len(codec.results) :
               codec.results[i].validation_type =
                   <<ValidationType.COORDINATE_BOUNDS,
                     ValidationType.LAND_CHECK,
                     ValidationType.ZONE_CONTAINMENT,
                     ValidationType.GEOHASH_CONSISTENCY>>[i]
        /\ ~is_in_sierra_leone(codec.latitude, codec.longitude) =>
               /\ Len(codec.results) <= 1
               /\ codec.pc \in {"return", "done"} =>
                      /\ Len(codec.results) = 1
                      /\ codec.results[1].status = ValidationStatus.FAILED
        /\ (/\ is_in_sierra_leone(codec.latitude, codec.longitude)
            /\ codec.pc \in {"return", "done"}) =>
               /\ Len(codec.results) = 4
               /\ codec.results[1].status = ValidationStatus.PASSED

\* A point north of the bounding box was validated and the run returned
\* after the bounds check.
C15_Witness ==
    /\ codec.pipeline = "point" /\ codec.pc = "done"
    /\ codec.latitude > SIERRA_LEONE_BOUNDS.max_lat
    /\ Len(codec.results) = 1
    /\ codec.results[1].validation_type = ValidationType.COORDINATE_BOUNDS
    /\ codec.results[1].status = ValidationStatus.FAILED

\* C16: a run that returned a verdict is valid if and only if no result of
\* the returned list has status failed, in the point pipeline and in the
\* zone pipeline alike; warnings never make it invalid.
C16_ValidIffNoFailed ==
    (codec.pc = "done" /\ codec.response = "ok") =>
        (codec.is_valid <=>
            \A i \in 1..Len(codec.results) : codec.results[i].status # ValidationStatus.FAILED)

\* C17: in a finished run of either pipeline, every check whose engine query
\* raised has a result in the list, with status warning and a message, and
\* the list still has its full length (the later checks ran).
C17_EngineErrorIsWarning ==
    (/\ codec.pc = "done" /\ codec.response = "ok"
     /\ \/ /\ codec.pipeline = "point"
           /\ is_in_sierra_leone(codec.latitude, codec.longitude)
        \/ /\ codec.pipeline = "zone"
           /\ codec.zone = "geometry") =>
        /\ Len(codec.results) = IF codec.pipeline = "point" THEN 4 ELSE 3
        /\ \A t \in codec.raises :
               \E i \in 1..Len(codec.results) :
                   /\ codec.results[i].validation_type = t
                   /\ codec.results[i].status = ValidationStatus.WARNING
                   /\ codec.results[i].message # ""

\* C18: when the engine answered, the zone containment result is failed
\* exactly when no zone contains the point; it is a warning only for an
\* expected zone that differs from the containing zone found, and its details
\* then carry found_zone and expected_zone; it is passed only when the zone
\* found equals the expected zone or no expected zone was given.
C18_ContainmentOutcome ==
    (/\ codec.pipeline = "point" /\ Len(codec.results) >= 3
     /\ ValidationType.ZONE_CONTAINMENT \notin codec.raises) =>
        LET r == codec.results[3]
            containing_codes == {z.zone_code : z \in codec.containing}
        IN  /\ r.validation_type = ValidationType.ZONE_CONTAINMENT
            /\ r.status \in {ValidationStatus.FAILED, ValidationStatus.WARNING,
                             ValidationStatus.PASSED}
            /\ r.status = ValidationStatus.FAILED <=> containing_codes = {}
            /\ r.status = ValidationStatus.WARNING =>
                   /\ codec.zone_code # NoText
                   /\ r.details.found_zone \in containing_codes
                   /\ r.details.found_zone # codec.zone_code
                   /\ r.details.expected_zone = codec.zone_code
            /\ r.status = ValidationStatus.PASSED =>
                   /\ r.details.zone_code \in containing_codes
                   /\ \/ codec.zone_code = NoText
                      \/ r.details.zone_code = codec.zone_code

\* The point is expected in zone 1100, only zone 1105 contains it, and the
\* result is a warning whose found_zone is 1105.
C18_Witness ==
    /\ codec.pipeline = "point" /\ Len(codec.results) >= 3
    /\ ValidationType.ZONE_CONTAINMENT \notin codec.raises
    /\ codec.zone_code = Zone1100
    /\ {z.zone_code : z \in codec.containing} = {Zone1105}
    /\ codec.results[3].status = ValidationStatus.WARNING
    /\ codec.results[3].details.found_zone = Zone1105
    /\ codec.results[3].details.expected_zone = Zone1100

\* C19: the land check gives a warning, not a failure, whenever no land
\* polygon is loaded; it fails only when polygons are loaded and none of
\* them contains the point.
C19_NoLandDataIsWarning ==
    (codec.pipeline = "point" /\ Len(codec.results) >= 2) =>
        LET r == codec.results[2]
        IN  /\ r.validation_type = ValidationType.LAND_CHECK
            /\ codec.land_boundaries.rows = {} => r.status = ValidationStatus.WARNING
            /\ r.status = ValidationStatus.FAILED =>
                   /\ codec.land_boundaries.rows # {}
                   /\ \A polygon \in codec.land_boundaries.rows :
                          ~polygon.contains_point

\* C20: the ward boundary crossing result is never failed: it is a warning
\* when wards are crossed or the engine raised and passed otherwise, so a
\* run whose two other checks did not fail is valid whatever wards the zone
\* crosses.
C20_WardCrossingNeverFails ==
    (codec.pipeline = "zone" /\ Len(codec.results) >= 3) =>
        LET r == codec.results[3]
        IN  /\ r.validation_type = ValidationType.BOUNDARY_CROSSING
            /\ r.status \in {ValidationStatus.WARNING, ValidationStatus.PASSED}
            /\ r.status = ValidationStatus.WARNING <=>
                   \/ codec.crossed_wards # {}
                   \/ ValidationType.BOUNDARY_CROSSING \in codec.raises
            /\ (/\ codec.pc = "done"
                /\ codec.results[1].status # ValidationStatus.FAILED
                /\ codec.results[2].status # ValidationStatus.FAILED) => codec.is_valid

\* A zone that crosses both wards was validated: its third result is a
\* warning and the verdict is valid.
C20_Witness ==
    /\ codec.pipeline = "zone" /\ codec.pc = "done"
    /\ codec.crossed_wards = WardIds
    /\ ValidationType.BOUNDARY_CROSSING \notin codec.raises
    /\ Len(codec.results) = 3
    /\ codec.results[3].validation_type = ValidationType.BOUNDARY_CROSSING
    /\ codec.results[3].status = ValidationStatus.WARNING
    /\ codec.is_valid

\* ------------------------------------------------------------------------
\* PDAIDService.parse and validate_format of arbitrary texts: a generated
\* PDA-ID with one character replaced, or with its last character dropped
\* ------------------------------------------------------------------------
ParseTexts ==
    LET base == {generate(z, n).text :
                     z \in ZoneCodeSamples \ MalformedZoneCodes,
                     n \in {1, 142}}
    IN  {[t EXCEPT ![i] = c] :
             t \in base, i \in 1..20, c \in DigitSet \cup {"X", "-"}}
        \cup {SubSeq(t, 1, 19) : t \in base}

InitParse ==
    /\ codec \in {[pc |-> "start", pda_id |-> t, parsed |-> Unset,
                   valid |-> FALSE] : t \in ParseTexts}
    /\ address_sequence = [z \in ZoneCodes |-> 0]
    /\ rowLock = [z \in ZoneCodes |-> 0]
    /\ addresses = {}
    /\ reg = [w \in Workers |-> RegIdle]
    /\ minted = {}
    /\ mintCount = 0
    /\ delCount = 0
    /\ GeoUnused

ParseText ==
    /\ codec.pc = "start"
    /\ codec' = [codec EXCEPT !.pc = "parsed", !.parsed = parse(codec.pda_id)]
    /\ UNCHANGED <<pdaVars, geoVars>>

ValidateText ==
    /\ codec.pc = "parsed"
    /\ codec' = [codec EXCEPT !.pc = "done",
                              !.valid = validate_format(codec.pda_id)]
    /\ UNCHANGED <<pdaVars, geoVars>>

NextParse == ParseText \/ ValidateText

SpecParse == InitParse /\ [][NextParse]_vars

\* C21: parse fails on a text that does not match SL-dddd-ddd-dddddd-d, it
\* fails with an error of another kind on a text that matches and whose
\* check digit is not the recomputed one, and validate_format is true
\* exactly when parse succeeds.
C21_DistinctParseErrors ==
    codec.pc = "done" =>
        /\ codec.valid <=> ~IsError(codec.parsed)
        /\ ~PDA_ID_PATTERN(codec.pda_id) => IsError(codec.parsed)
        /\ (/\ PDA_ID_PATTERN(codec.pda_id)
            /\ ~validate_pda_id_check_digit(codec.pda_id)) =>
               /\ IsError(codec.parsed)
               /\ \A t \in ParseTexts :
                      ~PDA_ID_PATTERN(t) => parse(t) # codec.parsed

\* ------------------------------------------------------------------------
\* utils/luhn.py : calculate_luhn_check_digit of a digit string, then
\* validate_luhn of the string followed by a digit
\* ------------------------------------------------------------------------
LuhnStrings == UNION {[1..n -> DigitSet] : n \in 1..MaxLuhnLen}

InitLuhn ==
    /\ codec \in {[pc |-> "start", number_str |-> d, digit |-> c,
                   check_digit |-> 0, valid |-> FALSE] :
                      d \in LuhnStrings, c \in DigitSet}
    /\ address_sequence = [z \in ZoneCodes |-> 0]
    /\ rowLock = [z \in ZoneCodes |-> 0]
    /\ addresses = {}
    /\ reg = [w \in Workers |-> RegIdle]
    /\ minted = {}
    /\ mintCount = 0
    /\ delCount = 0
    /\ GeoUnused

LuhnCalculate ==
    /\ codec.pc = "start"
    /\ codec' = [codec EXCEPT !.pc = "calculated",
                     !.check_digit = calculate_luhn_check_digit(codec.number_str)]
    /\ UNCHANGED <<pdaVars, geoVars>>

LuhnValidate ==
    /\ codec.pc = "calculated"
    /\ codec' = [codec EXCEPT !.pc = "done",
                     !.valid = validate_luhn(Append(codec.number_str, codec.digit))]
    /\ UNCHANGED <<pdaVars, geoVars>>

NextLuhn == LuhnCalculate \/ LuhnValidate

SpecLuhn == InitLuhn /\ [][NextLuhn]_vars

\* C22: for a non-empty digit string d and a digit c, validate_luhn of d
\* followed by c is true exactly when c is calculate_luhn_check_digit(d),
\* and that check digit is a single digit 0..9.
C22_LuhnAgreement ==
    /\ codec.pc \in {"calculated", "done"} => codec.check_digit \in 0..9
    /\ codec.pc = "done" =>
           (codec.valid <=> CharVal(codec.digit) = codec.check_digit)

\* A string whose last digit is doubled past 9 was validated with its own
\* check digit.
C22_Witness ==
    /\ codec.pc = "done" /\ codec.valid
    /\ Len(codec.number_str) >= 2
    /\ CharVal(codec.number_str[Len(codec.number_str)]) >= 5
    /\ CharVal(codec.digit) = codec.check_digit

\* ------------------------------------------------------------------------
\* services/confidence.py : ConfidenceScorer.  Scores and weights are in
\* hundredths, the overall sum in ten-thousandths; an Optional argument is
\* SqlNull for None and {v} for a value.
\* ------------------------------------------------------------------------
WEIGHT_GPS == 25

WEIGHT_VERIFICATION == 25

WEIGHT_COMPLETENESS == 20

WEIGHT_RECENCY == 15

WEIGHT_DELIVERY == 15

GPS_EXCELLENT == 5

GPS_GOOD == 10

GPS_ACCEPTABLE == 25

Value(optional) == CHOOSE v \in optional : TRUE

score_gps_accuracy(accuracy_m) ==
    IF accuracy_m = SqlNull THEN 30
    ELSE IF Value(accuracy_m) <= GPS_EXCELLENT THEN 100
    ELSE IF Value(accuracy_m) <= GPS_GOOD THEN 80
    ELSE IF Value(accuracy_m) <= GPS_ACCEPTABLE THEN 50
    ELSE 20

\* VERIFICATION_SCORES.get(method, 0.3); "none" is the key None
score_verification_method(method) ==
    CASE method = "field_survey" -> 100
      [] method = "photo_verified" -> 80
      [] method = "user_submitted" -> 50
      [] method = "crowdsourced" -> 30
      [] method = "imported" -> 40
      [] OTHER -> 30

REQUIRED_FIELDS == {"street_name", "landmark_primary"}

OPTIONAL_FIELDS ==
    {"block", "house_number", "building_name", "delivery_instructions"}

\* present: the names of the fields whose value is truthy;
\* (required_count / 2) * 0.6 + (optional_count / 4) * 0.4
score_completeness(present) ==
    Cardinality(present \cap REQUIRED_FIELDS) * 30
        + Cardinality(present \cap OPTIONAL_FIELDS) * 10

\* age_days: whole days between updated_at and now
score_recency(age_days) ==
    IF age_days = SqlNull THEN 30
    ELSE IF Value(age_days) <= 180 THEN 100
    ELSE IF Value(age_days) <= 365 THEN 80
    ELSE IF Value(age_days) <= 730 THEN 50
    ELSE 30

score_delivery_success(success_rate) ==
    IF success_rate = SqlNull THEN 50 ELSE Value(success_rate)

\* round(overall, 2) of a sum held in ten-thousandths, as hundredths
\* (ties to even)
Round2(overall) ==
    LET q == overall \div 100
        rest == overall % 100
    IN  IF rest > 50 \/ (rest = 50 /\ q % 2 = 1) THEN q + 1 ELSE q

calculate(a) ==
    LET factors ==
            [gps_accuracy |-> score_gps_accuracy(a.accuracy_m),
             verification_method |->
                 score_verification_method(a.verification_method),
             completeness |-> score_completeness(a.present),
             recency |-> score_recency(a.age_days),
             delivery_success |->
                 score_delivery_success(a.delivery_success_rate)]
        overall == factors.gps_accuracy * WEIGHT_GPS
                   + factors.verification_method * WEIGHT_VERIFICATION
                   + factors.completeness * WEIGHT_COMPLETENESS
                   + factors.recency * WEIGHT_RECENCY
                   + factors.delivery_success * WEIGHT_DELIVERY
    IN  [overall |-> Round2(overall), factors |-> factors]

\* delivery rates are in hundredths: 150 is 1.5, -50 is -0.5
ScorerInputs ==
    [accuracy_m : {SqlNull, {0}, {5}, {10}, {25}, {26}},
     verification_method : {"none", "field_survey", "photo_verified",
                            "user_submitted", "crowdsourced", "imported",
                            "other"},
     present : SUBSET (REQUIRED_FIELDS \cup OPTIONAL_FIELDS),
     age_days : {SqlNull, {0}, {180}, {365}, {730}, {731}},
     delivery_success_rate : {SqlNull, {0}, {50}, {100}, {150}, {-50}}]

InitScorer ==
    /\ codec \in {[pc |-> "start", args |-> a, overall |-> 0,
                   factors |-> NoDetails] : a \in ScorerInputs}
    /\ address_sequence = [z \in ZoneCodes |-> 0]
    /\ rowLock = [z \in ZoneCodes |-> 0]
    /\ addresses = {}
    /\ reg = [w \in Workers |-> RegIdle]
    /\ minted = {}
    /\ mintCount = 0
    /\ delCount = 0
    /\ GeoUnused

ScoreConfidence ==
    /\ codec.pc = "start"
    /\ LET r == calculate(codec.args)
       IN  codec' = [codec EXCEPT !.pc = "done", !.overall = r.overall,
                                  !.factors = r.factors]
    /\ UNCHANGED <<pdaVars, geoVars>>

SpecScorer == InitScorer /\ [][ScoreConfidence]_vars

\* C23: the overall confidence score is in [0.0, 1.0] for every combination
\* of inputs, optional inputs absent and a delivery success rate or GPS
\* accuracy outside its nominal range included, and each of the five
\* sub-scores is in [0, 1].
C23_ScoreInUnitInterval ==
    codec.pc = "done" =>
        /\ 0 <= codec.overall /\ codec.overall <= 100
        /\ \A f \in DOMAIN codec.factors :
               0 <= codec.factors[f] /\ codec.factors[f] <= 100

\* ------------------------------------------------------------------------
\* services/geohash.py : encode, decode, decode_center.  A coordinate is an
\* integer number of grid units: latitude -90..90 and longitude -180..180
\* are both -GridScale..GridScale, fine enough for every midpoint and
\* centre up to MaxPrecision characters to be a whole number, as the halving
\* of the float ranges is exact in the code.
\* ------------------------------------------------------------------------
RECURSIVE Pow2(_)
Pow2(n) == IF n = 0 THEN 1 ELSE 2 * Pow2(n - 1)

GridScale == Pow2((5 * MaxPrecision + 1) \div 2 + 1)

BASE32 == <<"0", "1", "2", "3", "4", "5", "6", "7", "8", "9", "b", "c", "d",
            "e", "f", "g", "h", "j", "k", "m", "n", "p", "q", "r", "s", "t",
            "u", "v", "w", "x", "y", "z">>

\* BASE32_MAP[c]
BASE32_MAP(c) == CHOOSE i \in 0..31 : BASE32[i + 1] = c

UpperHalfStrict(value, mid) == value > mid

\* `if longitude >= mid` / `if latitude >= mid`
UpperHalf(value, mid) == value >= mid

\* the bits the loop of encode produces, longitude first
RECURSIVE EncodeBits(_, _, _, _, _, _)
EncodeBits(latitude, longitude, lat_range, lng_range, is_longitude, n) ==
    IF n = 0 THEN <<>>
    ELSE IF is_longitude
    THEN LET mid == (lng_range[1] + lng_range[2]) \div 2
         IN  IF UpperHalf(longitude, mid)
             THEN <<1>> \o EncodeBits(latitude, longitude, lat_range,
                                      <<mid, lng_range[2]>>, FALSE, n - 1)
             ELSE <<0>> \o EncodeBits(latitude, longitude, lat_range,
                                      <<lng_range[1], mid>>, FALSE, n - 1)
    ELSE LET mid == (lat_range[1] + lat_range[2]) \div 2
         IN  IF UpperHalf(latitude, mid)
             THEN <<1>> \o EncodeBits(latitude, longitude,
                                      <<mid, lat_range[2]>>, lng_range,
                                      TRUE, n - 1)
             ELSE <<0>> \o EncodeBits(latitude, longitude,
                                      <<lat_range[1], mid>>, lng_range,
                                      TRUE, n - 1)

encode(latitude, longitude, precision) ==
    LET b == EncodeBits(latitude, longitude, <<-GridScale, GridScale>>,
                        <<-GridScale, GridScale>>, TRUE, 5 * precision)
    IN  [k \in 1..precision |->
            BASE32[16 * b[5 * k - 4] + 8 * b[5 * k - 3] + 4 * b[5 * k - 2]
                   + 2 * b[5 * k - 1] + b[5 * k] + 1]]

\* (bits >> i) & 1
BitOf(bits, i) == (bits \div Pow2(i)) % 2

\* the five halvings of one character, from bit 4 down to bit 0
RECURSIVE DecodeChar(_, _, _)
DecodeChar(st, bits, i) ==
    IF i < 0 THEN st
    ELSE LET bit == BitOf(bits, i)
             lng_mid == (st.lng_range[1] + st.lng_range[2]) \div 2
             lat_mid == (st.lat_range[1] + st.lat_range[2]) \div 2
             next == IF st.is_longitude
                     THEN [st EXCEPT !.is_longitude = FALSE,
                               !.lng_range = IF bit = 1 THEN <<lng_mid, @[2]>>
                                             ELSE <<@[1], lng_mid>>]
                     ELSE [st EXCEPT !.is_longitude = TRUE,
                               !.lat_range = IF bit = 1 THEN <<lat_mid, @[2]>>
                                             ELSE <<@[1], lat_mid>>]
         IN  DecodeChar(next, bits, i - 1)

\* `if char not in BASE32_MAP: continue`
RECURSIVE DecodeChars(_, _)
DecodeChars(st, geohash) ==
    IF Len(geohash) = 0 THEN st
    ELSE IF \E i \in 1..32 : BASE32[i] = geohash[1]
    THEN DecodeChars(DecodeChar(st, BASE32_MAP(geohash[1]), 4), Tail(geohash))
    ELSE DecodeChars(st, Tail(geohash))

decode(geohash) ==
    LET st == DecodeChars([lat_range |-> <<-GridScale, GridScale>>,
                           lng_range |-> <<-GridScale, GridScale>>,
                           is_longitude |-> TRUE], Lower(geohash))
    IN  [min_lat |-> st.lat_range[1], min_lng |-> st.lng_range[1],
         max_lat |-> st.lat_range[2], max_lng |-> st.lng_range[2]]

decode_center_unhalved(geohash) ==
    LET box == decode(geohash)
    IN  [latitude |-> box.min_lat + box.max_lat,
         longitude |-> box.min_lng + box.max_lng]

decode_center(geohash) ==
    LET box == decode(geohash)
    IN  [latitude |-> (box.min_lat + box.max_lat) \div 2,
         longitude |-> (box.min_lng + box.max_lng) \div 2]

\* ---- a geohash decoded, a point of its box encoded, the result decoded ----
HashChars == {BASE32[i] : i \in 1..32} \cup {"a"}

\* texts over the alphabet and the letter a, which is not in it
HashTexts == UNION {[1..n -> HashChars] : n \in 1..MaxHashLen}

IsGeohash(text) == \A i \in 1..Len(text) : \E k \in 1..32 : BASE32[k] = text[i]

WorldBox == [min_lat |-> -GridScale, min_lng |-> -GridScale,
             max_lat |-> GridScale, max_lng |-> GridScale]

\* both edges of a range, their neighbours inside it and its middle
EdgeSamples(lo, hi) == {lo, lo + 1, (lo + hi) \div 2, hi - 1, hi}

InitGeohash ==
    /\ codec \in {[pc |-> "decode", text |-> t, box |-> WorldBox,
                   latitude |-> 0, longitude |-> 0, precision |-> 0,
                   geohash |-> NoText, cell |-> WorldBox,
                   center |-> [latitude |-> 0, longitude |-> 0],
                   coarser |-> WorldBox] : t \in HashTexts}
    /\ address_sequence = [z \in ZoneCodes |-> 0]
    /\ rowLock = [z \in ZoneCodes |-> 0]
    /\ addresses = {}
    /\ reg = [w \in Workers |-> RegIdle]
    /\ minted = {}
    /\ mintCount = 0
    /\ delCount = 0
    /\ GeoUnused

GeohashDecode ==
    /\ codec.pc = "decode"
    /\ codec' = [codec EXCEPT !.pc = "pick", !.box = decode(codec.text)]
    /\ UNCHANGED <<pdaVars, geoVars>>

\* the caller takes a point of the returned box and a precision
GeohashPickPoint ==
    /\ codec.pc = "pick"
    /\ \E lat \in EdgeSamples(codec.box.min_lat, codec.box.max_lat),
          lng \in EdgeSamples(codec.box.min_lng, codec.box.max_lng),
          precision \in 1..MaxPrecision :
           codec' = [codec EXCEPT !.pc = "encode", !.latitude = lat,
                                  !.longitude = lng, !.precision = precision]
    /\ UNCHANGED <<pdaVars, geoVars>>

GeohashEncode ==
    /\ codec.pc = "encode"
    /\ codec' = [codec EXCEPT !.pc = "encoded",
                     !.geohash = encode(codec.latitude, codec.longitude,
                                        codec.precision)]
    /\ UNCHANGED <<pdaVars, geoVars>>

GeohashDecodeCenter ==
    /\ codec.pc = "encoded"
    /\ codec' = [codec EXCEPT !.pc = "decoded",
                              !.cell = decode(codec.geohash),
                              !.center = decode_center(codec.geohash)]
    /\ UNCHANGED <<pdaVars, geoVars>>

\* the same point again, one character longer
GeohashNextPrecision ==
    /\ codec.pc = "decoded"
    /\ codec.precision < MaxPrecision
    /\ codec' = [codec EXCEPT !.pc = "encode", !.precision = @ + 1,
                              !.coarser = codec.cell]
    /\ UNCHANGED <<pdaVars, geoVars>>

NextGeohash ==
    \/ GeohashDecode
    \/ GeohashPickPoint
    \/ GeohashEncode
    \/ GeohashDecodeCenter
    \/ GeohashNextPrecision

SpecGeohash == InitGeohash /\ [][NextGeohash]_vars

\* C24: the centre decoded from an encoded point lies inside the box decoded
\* from the same geohash, the geohash has as many characters as the
\* precision, and the box of the point at one character more is no wider
\* and no higher than its box at the precision before.
C24_CenterInShrinkingBox ==
    codec.pc = "decoded" =>
        /\ Len(codec.geohash) = codec.precision
        /\ codec.cell.min_lat <= codec.center.latitude
        /\ codec.center.latitude <= codec.cell.max_lat
        /\ codec.cell.min_lng <= codec.center.longitude
        /\ codec.center.longitude <= codec.cell.max_lng
        /\ codec.cell.max_lat - codec.cell.min_lat
               <= codec.coarser.max_lat - codec.coarser.min_lat
        /\ codec.cell.max_lng - codec.cell.min_lng
               <= codec.coarser.max_lng - codec.coarser.min_lng

\* A point was encoded at one character, then at two, and the second box is
\* strictly smaller than the first.
C24_Witness ==
    /\ codec.pc = "decoded" /\ codec.precision = 2
    /\ codec.coarser # WorldBox
    /\ codec.cell.max_lat - codec.cell.min_lat
           < codec.coarser.max_lat - codec.coarser.min_lat
    /\ codec.cell.max_lng - codec.cell.min_lng
           < codec.coarser.max_lng - codec.coarser.min_lng

\* h is the text the run started from, when it is a geohash
PrefixCase ==
    /\ codec.pc \in {"encoded", "decoded"}
    /\ IsGeohash(codec.text)
    /\ codec.precision >= Len(codec.text)

\* C25 as stated: for a geohash h and a point of the box decode(h), edges
\* included, the encoding of the point at a precision of at least the
\* length of h has h as a prefix.
C25_PrefixInClosedBox ==
    (/\ PrefixCase
     /\ codec.box.min_lat <= codec.latitude
     /\ codec.latitude <= codec.box.max_lat
     /\ codec.box.min_lng <= codec.longitude
     /\ codec.longitude <= codec.box.max_lng) =>
        SubSeq(codec.geohash, 1, Len(codec.text)) = codec.text

\* C25 amended: the same for a point of the cell without its upper edges,
\* min <= coordinate < max, the upper edge counting only where it is the
\* edge of the world (latitude 90, longitude 180).
C25_PrefixInHalfOpenCell ==
    (/\ PrefixCase
     /\ codec.box.min_lat <= codec.latitude
     /\ \/ codec.latitude < codec.box.max_lat
        \/ codec.latitude = GridScale
     /\ codec.box.min_lng <= codec.longitude
     /\ \/ codec.longitude < codec.box.max_lng
        \/ codec.longitude = GridScale) =>
        SubSeq(codec.geohash, 1, Len(codec.text)) = codec.text

\* A point on the lower edges of the cell of a geohash was encoded one
\* character longer than the geohash and kept it as its prefix.
C25_Witness ==
    /\ PrefixCase
    /\ codec.precision > Len(codec.text)
    /\ codec.latitude = codec.box.min_lat
    /\ codec.longitude = codec.box.min_lng
    /\ codec.box.max_lat < GridScale
    /\ SubSeq(codec.geohash, 1, Len(codec.text)) = codec.text

\* C26: decoding a text with a character outside the 32-symbol alphabet
\* gives the caller an error and never a bounding box.
C26_MalformedIsError ==
    (codec.pc # "decode" /\ ~IsGeohash(codec.text)) => IsError(codec.box)

\* ---------------------------------------------------------------------
\* Sequential numbering of generate_next (SpecPda)
\* ---------------------------------------------------------------------

\* The sequences generate_next has returned for zone z so far.
ReturnedSequences(z) == {m.sequence : m \in {o \in minted : o.zone_code = z}}

\* The counter of zone z as the next UPDATE will see it: the committed
\* value, or the value a request holding the row lock is about to commit.
CounterOf(z) ==
    IF \E w \in Workers : reg[w].pc = "commit" /\ reg[w].zone_code = z
    THEN address_sequence[z] + 1
    ELSE address_sequence[z]

\* C27: a generate_next that returns on a zone whose counter is c returns
\* the PDA-ID of sequence c + 1, and the commit of its request leaves the
\* counter at c + 1; the sequences returned for a zone are therefore the
\* n numbers that follow the zone's starting counter, without a gap: on a
\* fresh zone (counter 0) the n-th returning call returned sequence n.
C27_SequentialPerZone ==
    /\ [](\A z \in ZoneCodes :
              LET n == Cardinality(ReturnedSequences(z))
              IN  /\ ReturnedSequences(z) = (CounterOf(z) - n + 1)..CounterOf(z)
                  /\ CounterOf(z) - n \in {0, MAX_SEQUENCE - NearCapacity})
    /\ [][\A w \in Workers :
              LET z == reg[w].zone_code
              IN  /\ (reg[w].pc = "generate_next" /\ reg'[w].pc = "commit") =>
                         /\ reg'[w].sequence = address_sequence[z] + 1
                         /\ reg'[w].pda_id = generate(z, address_sequence[z] + 1).text
                         /\ minted' \ minted =
                                {[zone_code |-> z, sequence |-> address_sequence[z] + 1,
                                  pda_id |-> reg'[w].pda_id,
                                  afterWait |-> reg[w].waited]}
                  /\ (reg[w].pc = "commit" /\ reg'[w].pc = "idle") =>
                         address_sequence'[z] = address_sequence[z] + 1
         ]_vars

\* Two calls have returned and committed on a fresh zone: the first got
\* sequence 1, the second sequence 2, and the counter stands at 2.
C27_Witness ==
    \E z \in ZoneCodes :
        /\ ReturnedSequences(z) = {1, 2}
        /\ address_sequence[z] = 2
        /\ CounterOf(z) = 2

\* ------------------------------------------------------------------------
\* scripts/import_osm_addresses.py next to register_address (SpecImport)
\*
\* The import script numbers an address from the rows of the addresses
\* table and never touches postal_zones.address_sequence.  Its session
\* (codec in this specification) sees the committed rows and its own
\* inserted, not yet committed rows; it commits in batches.
\* ------------------------------------------------------------------------
ImportIdle == [pc |-> "idle", zone_code |-> NoText, sequence |-> 0,
               pda_id |-> NoText, pending |-> {}, inserted |-> {},
               imported |-> 0]

\* calculate_luhn_check: for i, digit in enumerate(reversed(digits)),
\* doubled where i % 2 == 0.
calculate_luhn_check(digits) ==
    LET ds == DigitsOf(digits)
        n == Len(ds)
        doubled == [i \in 1..n |-> IF (n - i) % 2 = 0
                                   THEN LuhnDouble(ds[i]) ELSE ds[i]]
    IN  (10 - (SumSeq(doubled) % 10)) % 10

\* generate_pda_id: f"SL-{primary}-{segment}-{sequence:06d}-{check}", with
\* no check of the range of sequence.
generate_pda_id(zone_code, sequence) ==
    LET parts == SplitDash(zone_code)
        primary == parts[1]
        segment == IF Len(parts) > 1 THEN parts[2] ELSE <<"0", "0", "0">>
        seq6 == ZFill(Str(sequence), 6)
        check == calculate_luhn_check(primary \o segment \o seq6)
    IN  <<"S", "L", "-">> \o primary \o <<"-">> \o segment \o <<"-">>
            \o seq6 \o <<"-", DigitChar(check)>>

\* CAST(SUBSTRING(pda_id FROM 'SL-[0-9]{4}-[0-9]{3}-([0-9]{6})-[0-9]') AS
\* INTEGER): the six digits of a well-formed id, NULL (ignored by MAX)
\* otherwise.
SequenceOfPdaId(pda_id) ==
    IF PDA_ID_PATTERN(pda_id) THEN {IntOf(SubSeq(pda_id, 13, 18))} ELSE {}

\* get_next_sequence: COALESCE(MAX(...), 0) + 1 over the rows of the zone
\* the session sees.
get_next_sequence(rows, zone_code) ==
    LET seqs == UNION {SequenceOfPdaId(a.pda_id) :
                          a \in {b \in rows : b.zone_code = zone_code}}
    IN  IF seqs = {} THEN 1
        ELSE (CHOOSE m \in seqs : \A n \in seqs : n <= m) + 1

PdaIdsOf(rows) == {a.pda_id : a \in rows}

InitImport ==
    /\ codec = ImportIdle
    /\ address_sequence = [z \in ZoneCodes |-> 0]
    /\ rowLock = [z \in ZoneCodes |-> NoWorker]
    /\ addresses = {}
    /\ reg = [w \in Workers |-> RegIdle]
    /\ minted = {}
    /\ mintCount = 0
    /\ delCount = 0
    /\ GeoUnused

\* import_addresses, one address: find_zone_for_point, get_next_sequence
\* and generate_pda_id.
ImportGenerate ==
    /\ codec.pc = "idle"
    /\ codec.imported < MaxImports
    /\ \E z \in ZoneCodes :
           LET sequence == get_next_sequence(addresses \cup codec.pending, z)
           IN  codec' = [codec EXCEPT !.pc = "insert",
                                      !.zone_code = z,
                                      !.sequence = sequence,
                                      !.pda_id = generate_pda_id(z, sequence),
                                      !.imported = @ + 1]
    /\ UNCHANGED <<pdaVars, geoVars>>

\* INSERT INTO addresses: the primary key pda_id rejects a committed
\* duplicate; the exception is caught and the address skipped, and the
\* failed transaction loses the rows of its batch.
ImportInsert ==
    /\ codec.pc = "insert"
    /\ IF codec.pda_id \in PdaIdsOf(addresses)
       THEN codec' = [codec EXCEPT !.pc = "idle", !.pending = {}]
       ELSE codec' = [codec EXCEPT
                        !.pc = "idle",
                        !.pending = @ \cup
                            {[pda_id |-> codec.pda_id,
                              zone_code |-> codec.zone_code,
                              sequence |-> codec.sequence,
                              verification_status |-> "verified"]},
                        !.inserted = @ \cup {codec.pda_id}]
    /\ UNCHANGED <<pdaVars, geoVars>>

\* await session.commit(): every hundredth address and at the end.
ImportCommit ==
    /\ codec.pc = "idle"
    /\ codec.pending # {}
    /\ addresses' = addresses \cup codec.pending
    /\ codec' = [codec EXCEPT !.pending = {}]
    /\ UNCHANGED <<geoVars, address_sequence, rowLock, reg, minted, mintCount,
                   delCount>>

\* db.commit() of register_address next to the import: the INSERT of the
\* address waits for an uncommitted row of the same pda_id; a committed one
\* makes it fail with IntegrityError, and the request is rolled back.
RegisterCommitOrConflict(w) ==
    /\ reg[w].pc = "commit"
    /\ reg[w].pda_id \notin PdaIdsOf(codec.pending)
    /\ IF reg[w].pda_id \in PdaIdsOf(addresses)
       THEN /\ reg' = [reg EXCEPT ![w] = RegIdle]
            /\ rowLock' = [rowLock EXCEPT ![reg[w].zone_code] = NoWorker]
            /\ UNCHANGED <<geoVars, codec, address_sequence, addresses, minted,
                           mintCount, delCount>>
       ELSE RegisterCommit(w)

NextImport ==
    \/ ImportGenerate
    \/ ImportInsert
    \/ ImportCommit
    \/ \E w \in Workers : RegisterFindZone(w)
    \/ \E w \in Workers : RegisterGenerateNext(w)
    \/ \E w \in Workers : RegisterCommitOrConflict(w)

SpecImport == InitImport /\ [][NextImport]_vars

\* C28: whatever the interleaving of OSM imports and registrations on a
\* zone, no PDA-ID that generate_next returned is a PDA-ID the import has
\* inserted.
C28_ImportAndRegisterDisjoint ==
    \A m \in minted : m.pda_id \notin codec.inserted

\* ------------------------------------------------------------------------
\* Deletes next to creates on several workers (SpecGeoDelete)
\* ------------------------------------------------------------------------
InitGeoDelete ==
    /\ InitGeoTables
    /\ quota = QuotaOf(ConcCreateRegion, MaxCreateDistrict, MaxCreateZone, 0,
                       MaxDelete)

NextGeoDelete ==
    \/ \E w \in GeoWorkers : CreateRegionCheckName(w)
    \/ \E w \in GeoWorkers : CreateRegionCheckShort(w)
    \/ \E w \in GeoWorkers : CreateRegionMaxCode(w)
    \/ \E w \in GeoWorkers : CreateRegionCommit(w)
    \/ \E w \in GeoWorkers : DeleteRegionLoad(w)
    \/ \E w \in GeoWorkers : DeleteRegionCommit(w)
    \/ \E w \in GeoWorkers : CreateDistrictLoadRegion(w)
    \/ \E w \in GeoWorkers : CreateDistrictMaxCode(w)
    \/ \E w \in GeoWorkers : CreateDistrictCommit(w)
    \/ \E w \in GeoWorkers : DeleteDistrictLoad(w)
    \/ \E w \in GeoWorkers : DeleteDistrictCommit(w)
    \/ \E w \in GeoWorkers : CreateZoneLoadDistrict(w)
    \/ \E w \in GeoWorkers : CreateZoneMaxNumber(w)
    \/ \E w \in GeoWorkers : CreateZoneCommit(w)

SpecGeoDelete == InitGeoDelete /\ [][NextGeoDelete]_vars

Admins == 1..NumAdmins

AdminIdle == [pc |-> "idle", op |-> "none", pda_id |-> NoText,
              resp |-> "none"]

\* The status a handler writes, and the change_type of its audit record.
DecisionStatus == [approve |-> "verified", reject |-> "rejected"]

DecisionChangeType == [approve |-> "verify", reject |-> "reject"]

\* A PDA-ID that is well formed and names no address, and a malformed text.
AbsentPdaId == generate(ZoneCodeList[1], MAX_SEQUENCE).text

MalformedPdaId == <<"S", "L">>

InitVerify ==
    /\ codec = [history |-> <<>>, adm |-> [a \in Admins |-> AdminIdle],
                decisions |-> 0]
    /\ address_sequence = [z \in ZoneCodes |-> 0]
    /\ rowLock = [z \in ZoneCodes |-> NoWorker]
    /\ addresses = {}
    /\ reg = [w \in Workers |-> RegIdle]
    /\ minted = {}
    /\ mintCount = 0
    /\ delCount = 0
    /\ GeoUnused

\* register_address, lines 507-560: the Address with
\* verification_status="pending", the "create" audit record, the commit.
RegisterCommitHistory(w) ==
    /\ reg[w].pc = "commit"
    /\ LET z == reg[w].zone_code
       IN  /\ addresses' = addresses \cup
                  {[pda_id |-> reg[w].pda_id, zone_code |-> z,
                    sequence |-> reg[w].sequence,
                    verification_status |-> "pending"]}
           /\ address_sequence' = [address_sequence EXCEPT ![z] = reg[w].sequence]
           /\ rowLock' = [rowLock EXCEPT ![z] = NoWorker]
           /\ codec' = [codec EXCEPT !.history =
                           Append(@, [pda_id |-> reg[w].pda_id,
                                      change_type |-> "create",
                                      old_status |-> "none",
                                      new_status |-> "none"])]
    /\ reg' = [reg EXCEPT ![w] = RegIdle]
    /\ UNCHANGED <<geoVars, minted, mintCount, delCount>>

\* approve_address 130-146 / reject_address 200-216: validate_format, the
\* SELECT, and the test of the status that was read.
DecisionLoad(a, op) ==
    /\ codec.adm[a].pc \in {"idle", "done"}
    /\ codec.decisions < MaxDecisions
    /\ \E pda_id \in PdaIdsOf(addresses) \cup {AbsentPdaId, MalformedPdaId} :
           LET rows == {x \in addresses : x.pda_id = pda_id}
               r == [AdminIdle EXCEPT !.op = op, !.pda_id = pda_id]
               out == IF ~validate_format(pda_id)
                      THEN [r EXCEPT !.pc = "done", !.resp = "InvalidFormat"]
                      ELSE IF rows = {}
                      THEN [r EXCEPT !.pc = "done", !.resp = "NotFound"]
                      ELSE IF \E x \in rows : x.verification_status # "pending"
                      THEN [r EXCEPT !.pc = "done", !.resp = "AlreadyDecided"]
                      ELSE [r EXCEPT !.pc = "commit"]
           IN  codec' = [codec EXCEPT !.adm[a] = out, !.decisions = @ + 1]
    /\ UNCHANGED <<pdaVars, geoVars>>

\* approve_address 148-163 / reject_address 218-236: the flush writes the
\* new status to the row of this pda_id and inserts the audit record, whose
\* old value is the literal "pending"; then the commit.
DecisionCommit(a) ==
    /\ codec.adm[a].pc = "commit"
    /\ LET r == codec.adm[a]
       IN  /\ addresses' =
                  {IF x.pda_id = r.pda_id
                   THEN [x EXCEPT !.verification_status = DecisionStatus[r.op]]
                   ELSE x : x \in addresses}
           /\ codec' = [codec EXCEPT
                          !.history =
                              Append(@, [pda_id |-> r.pda_id,
                                         change_type |-> DecisionChangeType[r.op],
                                         old_status |-> "pending",
                                         new_status |-> DecisionStatus[r.op]]),
                          !.adm[a] = [r EXCEPT !.pc = "done", !.resp = "OK"]]
    /\ UNCHANGED <<geoVars, address_sequence, rowLock, reg, minted, mintCount,
                   delCount>>

NextVerify ==
    \/ \E w \in Workers : RegisterFindZone(w)
    \/ \E w \in Workers : RegisterGenerateNext(w)
    \/ \E w \in Workers : RegisterCommitHistory(w)
    \/ \E a \in Admins : DecisionLoad(a, "approve")
    \/ \E a \in Admins : DecisionLoad(a, "reject")
    \/ \E a \in Admins : DecisionCommit(a)

SpecVerify == InitVerify /\ [][NextVerify]_vars

\* The audit records of pda_id that a step has added.
HistoryAdded(pda_id) ==
    {i \in (Len(codec.history) + 1)..Len(codec'.history) :
        codec'.history[i].pda_id = pda_id}

\* C30: an address enters the table as pending; the status of a pending
\* address changes only to verified or rejected, with exactly one audit
\* record written in the same step; the status of a verified or rejected
\* address never changes and no audit record is written for it; and an
\* approve or reject that answers with success found the address pending.
C30_OneWayStatus ==
    [][/\ \A n \in addresses' :
              n.pda_id \notin PdaIdsOf(addresses) =>
                  n.verification_status = "pending"
       /\ \A x \in addresses : \A n \in addresses' :
              n.pda_id = x.pda_id =>
                  IF x.verification_status = "pending"
                  THEN \/ n = x /\ HistoryAdded(x.pda_id) = {}
                       \/ /\ n.verification_status \in {"verified", "rejected"}
                          /\ Cardinality(HistoryAdded(x.pda_id)) = 1
                  ELSE n = x /\ HistoryAdded(x.pda_id) = {}
       /\ \A a \in Admins :
              (codec.adm[a].pc = "commit" /\ codec'.adm[a].resp = "OK") =>
                  \E x \in addresses :
                      /\ x.pda_id = codec.adm[a].pda_id
                      /\ x.verification_status = "pending"
      ]_vars

====
